------------------------------ MODULE Pairing ------------------------------
(***************************************************************************)
(* Pairing a phone with the desktop, end to end: the registry and its two  *)
(* clients.  The desktop is apps/desktop/src/main/pairing.ts driven by the *)
(* page renderer/src/components/DevicePairing.tsx; a phone is              *)
(* apps/mobile/src/screens/PairingScreen.tsx with                          *)
(* contexts/PairingContext.tsx.                                            *)
(*                                                                         *)
(* The desktop makes a new id for each code it shows and the phone a new   *)
(* id for each code it scans, so an id here is one attempt of either.  The *)
(* countdown on the page and the expiry in the registry run out together.  *)
(***************************************************************************)
EXTENDS Registry

CONSTANTS
  Desk,    \* the ids the desktop generates, one per code
  Phone,   \* the ids the phones generate, one per scan
  Faults,  \* which calls may fail: "call" before, "reply" after it is served
  UserMay  \* what the user of the desktop may do besides pairing

ASSUME IdAssumption == Desk \subseteq Id /\ Phone \subseteq Id
ASSUME TokenAssumption == Token \cap {"no", "asked"} = {}
ASSUME DeskPhoneAssumption == Desk \cap Phone = {}
ASSUME FaultsAssumption == Faults \subseteq {"call", "reply"}
ASSUME UserMayAssumption == UserMay \subseteq {"cancel", "leave", "unpair"}

VARIABLES
  fresh,    \* ids the desktop has not generated yet
  secret,   \* pairing:deviceId, and with it pairing:privateKey
  jwt,      \* pairing:jwt, the <<sub, pair>> the desktop holds
  json,     \* pairing.json
  ui,       \* state of the pairing page
  shown,    \* token of the code on the page
  initing,  \* progress of the call of initPairing in flight
  awaited,  \* the page that made that call is still there
  polls,    \* polls in flight
  left,     \* tokens that are polled for a page that was left before it had its code
  phone,    \* state of each scan
  scanned,  \* token each scan read
  pushCall  \* phones whose registration of a push token is in flight

pageVars == <<ui, shown, initing, awaited, left>>
desktopVars == <<fresh, secret, jwt, json, pageVars, polls>>
phoneVars == <<phone, scanned, pushCall>>
vars == <<registryVars, desktopVars, phoneVars>>

Poll == [token: Token, answer: Id \cup {None}, mounted: BOOLEAN]
Initing == {"no", "asked"} \cup Token

Init ==
  /\ RegistryInit
  /\ fresh = Desk
  /\ secret = None
  /\ jwt = None
  /\ json = None
  /\ ui = "idle"
  /\ shown = None
  /\ initing = "no"
  /\ awaited = FALSE
  /\ polls = {}
  /\ left = {}
  /\ phone = [p \in Phone |-> "idle"]
  /\ scanned = [p \in Phone |-> None]
  /\ pushCall = {}

-----------------------------------------------------------------------------
(* The desktop shows a code.  The new id and key are stored before the     *)
(* relay is asked for a token.                                             *)

StartPairingAnytime(d) ==
  /\ initing = "no"
  /\ d \in fresh
  /\ fresh' = fresh \ {d}
  /\ secret' = d
  /\ initing' = "asked"
  /\ awaited' = TRUE
  /\ UNCHANGED <<registryVars, jwt, json, ui, shown, polls, left, phoneVars>>
StartPairing(d) ==
  /\ ui \in {"idle", "expired"}
  /\ initing = "no"
  /\ d \in fresh
  /\ fresh' = fresh \ {d}
  /\ secret' = d
  /\ initing' = "asked"
  /\ awaited' = TRUE
  /\ UNCHANGED <<registryVars, jwt, json, ui, shown, polls, left, phoneVars>>

InitServed(t) ==
  /\ initing = "asked"
  /\ InitPairing(secret, t)
  /\ initing' = t
  /\ UNCHANGED <<fresh, secret, jwt, json, ui, shown, awaited, polls, left, phoneVars>>

(* A page that was left has cleared its intervals before the answer sets   *)
(* the one that polls: nothing clears that one any more.                   *)
InitAnswered ==
  /\ initing \in Token
  /\ initing' = "no"
  /\ awaited' = FALSE
  /\ \/ awaited /\ ui' = "qr" /\ shown' = initing /\ UNCHANGED left
     \/ ~ awaited /\ left' = left \cup {initing} /\ UNCHANGED <<ui, shown>>
  /\ UNCHANGED <<registryVars, fresh, secret, jwt, json, polls, phoneVars>>

InitFails ==
  /\ \/ "call" \in Faults /\ initing = "asked"
     \/ "reply" \in Faults /\ initing \in Token
  /\ initing' = "no"
  /\ awaited' = FALSE
  /\ UNCHANGED <<registryVars, fresh, secret, jwt, json, ui, shown, polls, left,
                 phoneVars>>

(* What the user does with the page.  The page polls only while it shows   *)
(* the code; a poll in flight goes on, but no longer reaches a page that   *)
(* was left and entered again, and so does a call of initPairing.  While   *)
(* the page waits for a code it shows neither a code nor a button; a call  *)
(* that was left behind is over before the next code or unpair.            *)

Cancel ==
  /\ "cancel" \in UserMay
  /\ ui = "qr"
  /\ ui' = "idle"
  /\ shown' = None
  /\ UNCHANGED <<registryVars, fresh, secret, jwt, json, initing, awaited, polls,
                 left, phoneVars>>

Remount ==
  /\ "leave" \in UserMay
  /\ ui' = IF json = None THEN "idle" ELSE "paired"
  /\ shown' = None
  /\ awaited' = FALSE
  /\ polls' = {[q EXCEPT !.mounted = FALSE] : q \in polls}
  /\ UNCHANGED <<registryVars, fresh, secret, jwt, json, initing, left, phoneVars>>

CountdownEnds ==
  /\ ui = "qr"
  /\ request[shown].expired
  /\ ui' = "expired"
  /\ UNCHANGED <<registryVars, fresh, secret, jwt, json, shown, initing, awaited,
                 polls, left, phoneVars>>

Unpair ==
  /\ "unpair" \in UserMay
  /\ ui = "paired" /\ initing = "no"
  /\ IF json # None /\ jwt # None
     THEN \/ json.device \in Id /\ UnpairCall(json.device)
          \/ json.device = None /\ UNCHANGED registryVars
          \/ "call" \in Faults /\ UNCHANGED registryVars
     ELSE UNCHANGED registryVars
  /\ json' = None
  /\ jwt' = None
  /\ secret' = None
  /\ ui' = "idle"
  /\ UNCHANGED <<fresh, shown, initing, awaited, polls, left, phoneVars>>

-----------------------------------------------------------------------------
(* The desktop polls the status of the code it shows.                      *)

PollStatus ==
  /\ ui = "qr"
  /\ polls' = polls \cup {[token |-> shown, answer |-> None, mounted |-> TRUE]}
  /\ UNCHANGED <<registryVars, fresh, secret, jwt, json, pageVars, phoneVars>>

LeftPoll(t) ==
  /\ t \in left
  /\ polls' = polls \cup {[token |-> t, answer |-> None, mounted |-> FALSE]}
  /\ UNCHANGED <<registryVars, fresh, secret, jwt, json, pageVars, phoneVars>>

PollServed(q) ==
  /\ q \in polls
  /\ q.answer = None
  /\ PairingStatus(q.token)
  /\ polls' = IF StatusResult(q.token) = None THEN polls \ {q}
              ELSE (polls \ {q}) \cup {[q EXCEPT !.answer = StatusResult(q.token)]}
  /\ UNCHANGED <<fresh, secret, jwt, json, pageVars, phoneVars>>

PollFails(q) ==
  /\ q \in polls
  /\ \/ "call" \in Faults /\ q.answer = None
     \/ "reply" \in Faults /\ q.answer # None
  /\ polls' = polls \ {q}
  /\ UNCHANGED <<registryVars, fresh, secret, jwt, json, pageVars, phoneVars>>

(* pollPairingStatus stores what the registry answered for the token of    *)
(* the poll next to the id that is stored now; the page of the poll, left  *)
(* or not, stops polling.                                                  *)
PollStored(q) ==
  /\ q \in polls
  /\ q.answer # None
  /\ polls' = polls \ {q}
  /\ jwt' = <<request[q.token].device, q.answer>>
  /\ json' = [device |-> secret, partner |-> q.answer]
  /\ ui' = IF q.mounted THEN "paired" ELSE ui
  /\ shown' = IF q.mounted THEN None ELSE shown
  /\ left' = left \ {q.token}
  /\ UNCHANGED <<registryVars, fresh, secret, initing, awaited, phoneVars>>

-----------------------------------------------------------------------------
(* A phone scans a code, asks the registry to complete the pairing, stores *)
(* the answer and registers its push token on the side.                    *)

Scan(p) ==
  /\ phone[p] = "idle"
  /\ ui \in {"qr", "expired"} /\ initing = "no"
  /\ phone' = [phone EXCEPT ![p] = "asked"]
  /\ scanned' = [scanned EXCEPT ![p] = shown]
  /\ UNCHANGED <<registryVars, desktopVars, pushCall>>

Pending(p) == phone[p] = "asked" /\ <<scanned[p], p>> \notin signing

PairServed(p) ==
  /\ Pending(p)
  /\ CompletePairing(scanned[p], p)
  /\ UNCHANGED <<desktopVars, phoneVars>>

PairRefused(p) ==
  /\ Pending(p)
  /\ ~ MayComplete(scanned[p], p)
  /\ phone' = [phone EXCEPT ![p] = "failed"]
  /\ UNCHANGED <<registryVars, desktopVars, scanned, pushCall>>

PairSigned(p) ==
  /\ phone[p] = "asked"
  /\ Signed(scanned[p], p)
  /\ phone' = [phone EXCEPT ![p] = "answered"]
  /\ UNCHANGED <<desktopVars, scanned, pushCall>>

PairFails(p) ==
  /\ \/ "call" \in Faults /\ Pending(p) /\ UNCHANGED registryVars
     \/ "reply" \in Faults /\ phone[p] = "asked" /\ SigningLost(scanned[p], p)
     \/ "reply" \in Faults /\ phone[p] = "answered" /\ UNCHANGED registryVars
  /\ phone' = [phone EXCEPT ![p] = "failed"]
  /\ UNCHANGED <<desktopVars, scanned, pushCall>>

PhonePaired(p) ==
  /\ phone[p] = "answered"
  /\ phone' = [phone EXCEPT ![p] = "paired"]
  /\ pushCall' = pushCall \cup {p}
  /\ UNCHANGED <<registryVars, desktopVars, scanned>>

PushServed(p) ==
  /\ p \in pushCall
  /\ pushCall' = pushCall \ {p}
  /\ SetPushToken(p)
  /\ UNCHANGED <<desktopVars, phone, scanned>>

PushFails(p) ==
  /\ "call" \in Faults
  /\ p \in pushCall
  /\ pushCall' = pushCall \ {p}
  /\ UNCHANGED <<registryVars, desktopVars, phone, scanned>>

PhoneUnpairs(p) ==
  /\ phone[p] = "paired"
  /\ phone' = [phone EXCEPT ![p] = "unpaired"]
  /\ \/ DeletePushToken(p)
     \/ "call" \in Faults /\ UNCHANGED registryVars
  /\ UNCHANGED <<desktopVars, scanned, pushCall>>

-----------------------------------------------------------------------------
ExpireRequest(t) == Expire(t) /\ UNCHANGED <<desktopVars, phoneVars>>

Next ==
  \/ \E d \in Desk : StartPairing(d)
  \/ \E t \in Token : InitServed(t) \/ ExpireRequest(t)
  \/ InitAnswered \/ InitFails
  \/ Cancel \/ Remount \/ CountdownEnds \/ Unpair
  \/ PollStatus
  \/ \E t \in left : LeftPoll(t)
  \/ \E q \in polls : PollServed(q) \/ PollFails(q) \/ PollStored(q)
  \/ \E p \in Phone :
       \/ Scan(p) \/ PairServed(p) \/ PairRefused(p) \/ PairSigned(p)
       \/ PairFails(p) \/ PhonePaired(p)
       \/ PushServed(p) \/ PushFails(p) \/ PhoneUnpairs(p)

Spec == Init /\ [][Next]_vars
-----------------------------------------------------------------------------
(* Properties                                                              *)

(* Type invariant: the registry, the stored pairing of the desktop, its    *)
(* page and the phones keep their ranges; a page that shows a code has one.*)
TypeOK ==
  /\ RegistryTypeOK
  /\ fresh \subseteq Desk
  /\ secret \in Desk \cup {None}
  /\ jwt \in (Desk \X Phone) \cup {None}
  /\ json \in [device: Desk \cup {None}, partner: Phone] \cup {None}
  /\ ui \in {"idle", "qr", "expired", "paired"}
  /\ shown \in Token \cup {None}
  /\ ui \in {"qr", "expired"} => shown \in Token
  /\ initing \in Initing
  /\ awaited \in BOOLEAN
  /\ left \subseteq Token
  /\ polls \subseteq Poll
  /\ phone \in [Phone -> {"idle", "asked", "answered", "paired", "failed", "unpaired"}]
  /\ scanned \in [Phone -> Token \cup {None}]
  /\ pushCall \subseteq Phone

(* The phones whose completion of a token the registry has accepted and    *)
(* told them of.                                                           *)
Holds(p, t) == phone[p] \in {"answered", "paired", "unpaired"} /\ scanned[p] = t

(* Two phones that scan the same code at the same time, with the second    *)
(* request arriving while the first waits for its signatures, never both   *)
(* get a JWT; and a desktop that holds the JWT of a code names the phone   *)
(* that holds the other one.                                               *)
NoRival ==
  \A p \in Phone, t \in Token :
    Holds(p, t) =>
      /\ \A q \in Phone : Holds(q, t) => q = p
      /\ jwt # None /\ jwt[1] = request[t].device => jwt[2] = p

(* "Store pairing bidirectionally": what the registry holds for one end of *)
(* a pair it holds for the other, and a phone with a JWT is in the pair of *)
(* the desktop id that its JWT names.                                      *)
PairIsMutual ==
  /\ \A d, e \in Id : pair[d] # None /\ e \in {pair[d][1], pair[d][2]} => pair[e] = pair[d]
  /\ \A p \in Phone, t \in Token :
       Holds(p, t) => pair[p] = <<request[t].device, p>>

(* "One-time retrieval": the result of a code is held once, by the         *)
(* registry, by the answer of a poll or by the desktop, however polls      *)
(* overlap.                                                                *)
Answers(t) == {q \in polls : q.token = t /\ q.answer # None}

HandedOutOnce ==
  \A t \in Token :
    /\ \A q, r \in Answers(t) : q = r
    /\ Answers(t) # {} => StatusResult(t) = None
    /\ Issued(t) /\ jwt # None /\ jwt[1] = request[t].device =>
         StatusResult(t) = None /\ Answers(t) = {}

(* The stored JWT, pairing.json and key belong together, unless the answer *)
(* of a poll was overtaken by a new code or by an unpair.                  *)
StoredTogether ==
  [][\A q \in polls :
       /\ json' # json /\ q \notin polls' /\ q.answer # None
       /\ ui = "qr" /\ q.token = shown
       => json'.device = jwt'[1] /\ json'.partner = jwt'[2]]_vars
=============================================================================
