------------------------------ MODULE Registry ------------------------------
(***************************************************************************)
(* The device registry of the relay, packages/relay/src/device-registry.ts:*)
(* one Durable Object that holds pairing requests, pairs and push tokens.  *)
(*                                                                         *)
(* A handler is one step: while it waits for its storage no other event is *)
(* delivered.  completePairing alone is two steps, because it also waits   *)
(* for the signatures of the JWTs and storage does not hold events back    *)
(* meanwhile.  A device id stands for its key pair too, both are generated *)
(* together, and for the JWT <<sub, pair>> with it as sub.                 *)
(***************************************************************************)
CONSTANTS
  Id,          \* device ids
  WellFormed,  \* the ids that match DEVICE_ID_RE
  Token,       \* pairing tokens
  None         \* absence of a value

VARIABLES
  request, \* pairing:<token>, the pairing request of each token issued
  pair,    \* pair:<id>, the <<deviceA, deviceB>> each device belongs to
  push,    \* devices with a push:<id>
  signing  \* <<token, id>> of the completions that wait for signatures

registryVars == <<request, pair, push, signing>>

Request ==
  [device: Id, used: BOOLEAN, expired: BOOLEAN, result: Id \cup {None}]

ASSUME WellFormedAssumption == WellFormed \subseteq Id
ASSUME NoneAssumption == None \notin Id \cup Token \cup Request \cup (Id \X Id)

RegistryInit ==
  /\ request = [t \in Token |-> None]
  /\ pair = [d \in Id |-> None]
  /\ push = {}
  /\ signing = {}

Issued(t) == request[t] # None

(* initPairing: a fresh random token. *)
InitPairing(d, t) ==
  /\ d \in WellFormed
  /\ ~ Issued(t)
  /\ request' = [request EXCEPT ![t] =
       [device |-> d, used |-> FALSE, expired |-> FALSE, result |-> None]]
  /\ UNCHANGED <<pair, push, signing>>

(* The five minutes of a request are over. *)
Expire(t) ==
  /\ Issued(t)
  /\ ~ request[t].expired
  /\ request' = [request EXCEPT ![t].expired = TRUE]
  /\ UNCHANGED <<pair, push, signing>>

(* The checks of completePairing; a call that fails one changes nothing.   *)
LiveToken(t) == Issued(t) /\ ~ request[t].used /\ ~ request[t].expired
MayComplete(t, d) ==
  /\ d \in WellFormed
  /\ LiveToken(t)
  /\ request[t].device # d

UsedAtTheEnd(t) == request
Used(t) == [request EXCEPT ![t].used = TRUE]
PairedOneWay(a, b) == [pair EXCEPT ![a] = <<a, b>>]
Paired(a, b) == [pair EXCEPT ![a] = <<a, b>>, ![b] = <<a, b>>]

CompletePairing(t, d) ==
  /\ MayComplete(t, d)
  /\ request' = Used(t)
  /\ pair' = Paired(request[t].device, d)
  /\ signing' = signing \cup {<<t, d>>}
  /\ UNCHANGED push

(* Both JWTs are signed: the one of the initiator waits to be polled.      *)
ResultStored(t, d) == [request EXCEPT ![t].used = TRUE, ![t].result = d]

Signed(t, d) ==
  /\ <<t, d>> \in signing
  /\ signing' = signing \ {<<t, d>>}
  /\ request' = ResultStored(t, d)
  /\ UNCHANGED <<pair, push>>

(* The object is evicted while it waits for the signatures.                *)
SigningLost(t, d) ==
  /\ <<t, d>> \in signing
  /\ signing' = signing \ {<<t, d>>}
  /\ UNCHANGED <<request, pair, push>>

(* getPairingStatus: the result is handed out and deleted.                 *)
StatusResult(t) == IF Issued(t) THEN request[t].result ELSE None
ResultKept(t) == request
ResultTaken(t) ==
  IF StatusResult(t) = None THEN request ELSE [request EXCEPT ![t].result = None]

PairingStatus(t) ==
  /\ request' = ResultTaken(t)
  /\ UNCHANGED <<pair, push, signing>>

(* unpair deletes the pair and the push tokens of both ends.               *)
UnpairDevices(d) ==
  IF pair[d] = None THEN UNCHANGED registryVars
  ELSE LET ends == {pair[d][1], pair[d][2]}
       IN  /\ pair' = [e \in Id |-> IF e \in ends THEN None ELSE pair[e]]
           /\ push' = push \ ends
           /\ UNCHANGED <<request, signing>>

(* The worker routes init, complete, status and push tokens to the         *)
(* registry; it has no route for DELETE /pair/<id>.                        *)
UnpairRouted == FALSE
UnpairCall(d) ==
  IF UnpairRouted THEN UnpairDevices(d) ELSE UNCHANGED registryVars

SetPushToken(d) ==
  /\ push' = IF pair[d] = None THEN push ELSE push \cup {d}
  /\ UNCHANGED <<request, pair, signing>>

DeletePushToken(d) ==
  /\ push' = push \ {d}
  /\ UNCHANGED <<request, pair, signing>>

RegistryTypeOK ==
  /\ request \in [Token -> Request \cup {None}]
  /\ pair \in [Id -> (Id \X Id) \cup {None}]
  /\ push \subseteq Id
  /\ signing \subseteq Token \X Id
=============================================================================
