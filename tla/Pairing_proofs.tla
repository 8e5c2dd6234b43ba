---------------------------- MODULE Pairing_proofs ----------------------------
(***************************************************************************)
(* The safety of pairing, for any number of codes, phones and polls and    *)
(* every failure: one phone per code, the two ends of a pair agree, the    *)
(* result of a code is handed out once and stored with the key it is for.  *)
(***************************************************************************)
EXTENDS Pairing, TLAPS

(* Ids of the desktop no request was made with yet.                        *)
Unclaimed(d) == d \in fresh \/ (initing = "asked" /\ d = secret)

(* The phones whose completion of a token the registry has accepted.       *)
Claims(p, t) == Holds(p, t) \/ <<t, p>> \in signing

(* Where the result of a token may be: in the registry, in the answer of a *)
(* poll, and with the desktop.                                             *)
InRegistry(t, x) == Issued(t) /\ request[t].result = x
InAnswer(t, x) == \E q \in polls : q.token = t /\ q.answer = x
InDesktop(t, x) == Issued(t) /\ jwt = <<request[t].device, x>>
Named(t, x) == InRegistry(t, x) \/ InAnswer(t, x) \/ InDesktop(t, x)

(* What the page and its call of initPairing know of the stored id.        *)
DeskInv ==
  /\ secret \notin fresh
  /\ initing = "asked" => secret \in Desk
  /\ initing \in Token => Issued(initing) /\ request[initing].device = secret
  /\ ui = "qr" => initing = "no" /\ Issued(shown) /\ request[shown].device = secret

(* Every request has an id of its own, and results are phones.             *)
RequestInv ==
  /\ \A t \in Token : Issued(t) =>
       /\ request[t].device \in Desk
       /\ ~ Unclaimed(request[t].device)
       /\ request[t].result \in Phone \cup {None}
  /\ \A t, u \in Token :
       Issued(t) /\ Issued(u) /\ request[t].device = request[u].device => t = u

(* Only tokens that were issued have answers, and the desktop holds no JWT *)
(* of an id no request was made with.                                      *)
AnswerInv ==
  /\ \A q \in polls : q.answer # None => Issued(q.token) /\ q.answer \in Phone
  /\ jwt # None => ~ Unclaimed(jwt[1])

(* The completions that wait for signatures are those of phones that wait. *)
ScanInv ==
  /\ \A t \in Token, p \in Id :
       <<t, p>> \in signing => p \in Phone /\ phone[p] = "asked" /\ scanned[p] = t
  /\ \A p \in Phone : phone[p] # "idle" => scanned[p] \in Token

(* One phone per token, which is paired with the id of the token.          *)
ClaimInv ==
  \A p \in Phone, t \in Token : Claims(p, t) =>
    /\ Issued(t) /\ request[t].used
    /\ pair[p] = <<request[t].device, p>>
    /\ \A q \in Phone : Claims(q, t) => q = p

(* A result names the phone that has completed the token.                  *)
NamedInv ==
  \A t \in Token, x \in Phone : Named(t, x) =>
    /\ Issued(t) /\ request[t].used
    /\ \A p \in Phone : <<t, p>> \notin signing /\ (Holds(p, t) => p = x)

(* Pairs are mutual, and who has not completed a token has none.           *)
PairInv ==
  /\ \A d, e \in Id : pair[d] # None /\ e \in {pair[d][1], pair[d][2]} => pair[e] = pair[d]
  /\ \A d \in Desk : Unclaimed(d) => pair[d] = None
  /\ \A t \in Token : Issued(t) /\ ~ request[t].used => pair[request[t].device] = None
  /\ \A p \in Phone : phone[p] = "idle" \/ Pending(p) => pair[p] = None

(* The inductive invariant.                                                *)
PairingInv ==
  /\ TypeOK /\ DeskInv /\ RequestInv /\ AnswerInv /\ ScanInv
  /\ ClaimInv /\ NamedInv /\ PairInv /\ HandedOutOnce

Assumed ==
  /\ Desk \subseteq Id /\ Phone \subseteq Id /\ Desk \cap Phone = {}
  /\ None \notin Id /\ None \notin Token /\ None \notin Request /\ None \notin Id \X Id
  /\ "no" \notin Token /\ "asked" \notin Token

LEMMA Assumptions == Assumed
  BY IdAssumption, DeskPhoneAssumption, NoneAssumption, TokenAssumption DEF Assumed

-----------------------------------------------------------------------------
(* The start.                                                              *)
LEMMA PairingInit == Init => PairingInv
<1> SUFFICES ASSUME Init PROVE PairingInv
  OBVIOUS
<1> USE Assumptions DEF Assumed, Init, RegistryInit
<1>1. TypeOK
  BY DEF TypeOK, RegistryTypeOK, Initing
<1>2. DeskInv /\ RequestInv /\ AnswerInv /\ ScanInv
  BY DEF DeskInv, RequestInv, AnswerInv, ScanInv, Issued
<1>3. ClaimInv /\ NamedInv /\ PairInv /\ HandedOutOnce
  BY DEF ClaimInv, NamedInv, PairInv, HandedOutOnce, Claims, Named, InRegistry,
         InAnswer, InDesktop, Holds, Issued, Answers, Pending
<1> QED
  BY <1>1, <1>2, <1>3 DEF PairingInv

-----------------------------------------------------------------------------
(* A poll that no longer reaches the page is for the same token.           *)
LEMMA Unmounted ==
  ASSUME NEW q \in Poll
  PROVE  /\ [q EXCEPT !.mounted = FALSE] \in Poll
         /\ [q EXCEPT !.mounted = FALSE].token = q.token
         /\ [q EXCEPT !.mounted = FALSE].answer = q.answer
<1>1. [q EXCEPT !.mounted = FALSE] \in Poll
  BY DEF Poll
<1>2. [q EXCEPT !.mounted = FALSE].token = q.token
  BY DEF Poll
<1>3. [q EXCEPT !.mounted = FALSE].answer = q.answer
  BY DEF Poll
<1> QED BY <1>1, <1>2, <1>3

(* The variables keep their types.                                         *)
LEMMA TypeStep == PairingInv /\ [Next]_vars => TypeOK'
<1> SUFFICES ASSUME PairingInv, [Next]_vars PROVE TypeOK'
  OBVIOUS
<1>0. TypeOK /\ DeskInv /\ RequestInv /\ AnswerInv /\ ScanInv /\ ClaimInv
  BY DEF PairingInv
<1> USE <1>0, Assumptions DEF Assumed, TypeOK, RegistryTypeOK, vars, registryVars, desktopVars, pageVars, phoneVars
<1>1. ASSUME NEW d \in Desk, StartPairing(d) PROVE TypeOK'
  BY <1>1 DEF StartPairing, Initing
<1>2. ASSUME NEW t \in Token, InitServed(t) PROVE TypeOK'
  BY <1>2 DEF InitServed, InitPairing, Initing, DeskInv, Request
<1>3. ASSUME NEW t \in Token, ExpireRequest(t) PROVE TypeOK'
  <2>1. request[t] \in Request
    BY <1>3 DEF ExpireRequest, Expire, Issued
  <2>2. [request[t] EXCEPT !.expired = TRUE] \in Request
    BY <2>1 DEF Request
  <2> QED BY <1>3, <2>2 DEF ExpireRequest, Expire
<1>4. CASE InitAnswered \/ InitFails \/ Cancel \/ CountdownEnds
  BY <1>4 DEF InitAnswered, InitFails, Cancel, CountdownEnds, Initing
<1>5. CASE Remount
  <2>1. \A q \in polls : [q EXCEPT !.mounted = FALSE] \in Poll
    BY Unmounted
  <2>2. polls' \subseteq Poll
    BY <1>5, <2>1 DEF Remount
  <2> QED BY <1>5, <2>2 DEF Remount, Initing
<1>6. CASE Unpair
  BY <1>6 DEF Unpair, UnpairCall, UnpairRouted
<1>7. CASE PollStatus \/ \E t \in left : LeftPoll(t)
  <2>1. CASE PollStatus
    <3>1. [token |-> shown, answer |-> None, mounted |-> TRUE] \in Poll
      BY <2>1 DEF PollStatus, Poll
    <3> QED BY <2>1, <3>1 DEF PollStatus, pageVars
  <2>2. ASSUME NEW t \in left, LeftPoll(t) PROVE TypeOK'
    <3>1. [token |-> t, answer |-> None, mounted |-> FALSE] \in Poll
      BY DEF Poll
    <3> QED BY <2>2, <3>1 DEF LeftPoll, pageVars
  <2> QED BY <1>7, <2>1, <2>2
<1>8. ASSUME NEW q \in polls, PollServed(q) PROVE TypeOK'
  BY <1>8 DEF PollServed, pageVars, PairingStatus, ResultTaken, StatusResult, Issued, Poll, Request
<1>9. ASSUME NEW q \in polls, PollFails(q) PROVE TypeOK'
  BY <1>9 DEF PollFails, pageVars
<1>10. ASSUME NEW q \in polls, PollStored(q) PROVE TypeOK'
  BY <1>10 DEF PollStored, Poll, RequestInv, AnswerInv
<1>11. ASSUME NEW p \in Phone, Scan(p) PROVE TypeOK'
  BY <1>11 DEF Scan
<1>12. ASSUME NEW p \in Phone, PairServed(p) PROVE TypeOK'
  <2> DEFINE t == scanned[p]
  <2>1. t \in Token /\ request[t] \in Request /\ p \in Id
    BY <1>12 DEF PairServed, CompletePairing, MayComplete, LiveToken, Issued, Pending, ScanInv
  <2>2. [request[t] EXCEPT !.used = TRUE] \in Request /\ request[t].device \in Id
    BY <2>1 DEF Request
  <2>3. request' = [request EXCEPT ![t] = [request[t] EXCEPT !.used = TRUE]]
    BY <1>12 DEF PairServed, CompletePairing, Used
  <2>4. pair' \in [Id -> (Id \X Id) \cup {None}]
    BY <1>12, <2>1, <2>2 DEF PairServed, CompletePairing, Paired
  <2>5. request' \in [Token -> Request \cup {None}]
    BY <2>1, <2>2, <2>3
  <2> QED BY <1>12, <2>1, <2>4, <2>5 DEF PairServed, CompletePairing
<1>13. ASSUME NEW p \in Phone, PairRefused(p) \/ PhonePaired(p) PROVE TypeOK'
  BY <1>13 DEF PairRefused, PhonePaired
<1>14. ASSUME NEW p \in Phone, PairSigned(p) PROVE TypeOK'
  <2> DEFINE t == scanned[p]
  <2>1. t \in Token /\ request[t] \in Request /\ p \in Id
    BY <1>14 DEF PairSigned, Signed, ScanInv, ClaimInv, Claims, Issued
  <2>2. [request[t] EXCEPT !.used = TRUE, !.result = p] \in Request
    BY <2>1 DEF Request
  <2>3. request' = [request EXCEPT ![t] = [request[t] EXCEPT !.used = TRUE, !.result = p]]
    BY <1>14, <2>1 DEF PairSigned, Signed, ResultStored
  <2>5. request' \in [Token -> Request \cup {None}]
    BY <2>1, <2>2, <2>3
  <2> QED BY <1>14, <2>1, <2>5 DEF PairSigned, Signed
<1>15. ASSUME NEW p \in Phone, PairFails(p) PROVE TypeOK'
  BY <1>15 DEF PairFails, SigningLost
<1>16. ASSUME NEW p \in Phone, PushServed(p) \/ PushFails(p) \/ PhoneUnpairs(p) PROVE TypeOK'
  BY <1>16 DEF PushServed, PushFails, PhoneUnpairs, SetPushToken, DeletePushToken
<1>17. CASE UNCHANGED vars
  BY <1>17
<1> QED
  BY <1>1, <1>2, <1>3, <1>4, <1>5, <1>6, <1>7, <1>8, <1>9, <1>10, <1>11, <1>12,
     <1>13, <1>14, <1>15, <1>16, <1>17 DEF Next

-----------------------------------------------------------------------------
(* What a step may do to the requests: it issues one, for the id of the    *)
(* page's call, or it marks one as expired, used or answered.              *)
SameDevices ==
  \A t \in Token : Issued(t) =>
    Issued(t)' /\ request'[t].device = request[t].device /\ (request[t].used => request'[t].used)

NewRequest(t) ==
  /\ initing = "asked" /\ initing' = t /\ ~ Issued(t) /\ Issued(t)'
  /\ request'[t].device = secret /\ ~ request'[t].used /\ request'[t].result = None
  /\ \A u \in Token \ {t} : request'[u] = request[u]
  /\ UNCHANGED <<fresh, secret, jwt, polls, pair, signing, phone, scanned, ui, shown>>

LEMMA InitServedStep ==
  ASSUME PairingInv, NEW t \in Token, InitServed(t)
  PROVE  NewRequest(t) /\ SameDevices
<1> USE Assumptions DEF Assumed
<1>0. /\ TypeOK
      /\ UNCHANGED <<fresh, secret, jwt, polls, pair, signing, phone, scanned, ui, shown>>
      /\ initing = "asked" /\ initing' = t /\ ~ Issued(t)
      /\ request' = [request EXCEPT ![t] =
           [device |-> secret, used |-> FALSE, expired |-> FALSE, result |-> None]]
      /\ secret \in Desk
  BY DEF PairingInv, DeskInv, InitServed, InitPairing, phoneVars
<1>1. request \in [Token -> Request \cup {None}]
  BY <1>0 DEF TypeOK, RegistryTypeOK
<1>2. request'[t] = [device |-> secret, used |-> FALSE, expired |-> FALSE, result |-> None]
  BY <1>0, <1>1
<1>3. \A u \in Token \ {t} : request'[u] = request[u]
  BY <1>0, <1>1
<1>4. request'[t] \in Request /\ request'[t].device = secret
      /\ ~ request'[t].used /\ request'[t].result = None
  <2>1. secret \in Id
    BY <1>0
  <2> QED BY <1>2, <2>1 DEF Request
<1>5. NewRequest(t)
  BY <1>0, <1>2, <1>3, <1>4 DEF NewRequest, Issued
<1> QED BY <1>0, <1>3, <1>5 DEF SameDevices, Issued

(* The other steps issue no request.                                       *)
OldRequests ==
  /\ SameDevices
  /\ \A t \in Token : Issued(t)' => Issued(t)

(* A completion: its token is used and the two ends are paired.            *)
LEMMA PairServedStep ==
  ASSUME PairingInv, NEW p \in Phone, PairServed(p)
  PROVE  LET t == scanned[p]
         IN  /\ t \in Token /\ Issued(t) /\ ~ request[t].used /\ Pending(p)
             /\ request[t].device \in Desk
             /\ request'[t].used /\ request'[t].result = request[t].result
             /\ \A u \in Token \ {t} : request'[u] = request[u]
             /\ pair'[p] = <<request[t].device, p>>
             /\ pair'[request[t].device] = <<request[t].device, p>>
             /\ \A d \in Id \ {p, request[t].device} : pair'[d] = pair[d]
             /\ signing' = signing \cup {<<t, p>>}
             /\ UNCHANGED <<desktopVars, phone, scanned>>
             /\ OldRequests
<1> DEFINE t == scanned[p]
<1> USE Assumptions DEF Assumed
<1>0. TypeOK /\ RequestInv /\ ScanInv
  BY DEF PairingInv
<1>1. t \in Token
  BY <1>0 DEF PairServed, Pending, ScanInv
<1>2. /\ Issued(t) /\ ~ request[t].used /\ Pending(p)
      /\ request' = Used(t) /\ pair' = Paired(request[t].device, p)
      /\ signing' = signing \cup {<<t, p>>}
      /\ UNCHANGED <<desktopVars, phone, scanned>>
  BY <1>1 DEF PairServed, CompletePairing, MayComplete, LiveToken, phoneVars
<1>3. request \in [Token -> Request \cup {None}] /\ request[t] \in Request
  BY <1>0, <1>1, <1>2 DEF TypeOK, RegistryTypeOK, Issued
<1>4. request[t].device \in Desk /\ p \in Id /\ request[t].device # p
  BY <1>0, <1>1, <1>2 DEF RequestInv
<1>5. /\ request'[t] = [request[t] EXCEPT !.used = TRUE]
      /\ \A u \in Token \ {t} : request'[u] = request[u]
  BY <1>1, <1>2, <1>3 DEF Used
<1>6. /\ request'[t].used /\ request'[t].result = request[t].result
      /\ request'[t].device = request[t].device /\ request'[t] \in Request
  BY <1>3, <1>5 DEF Request
<1>7. /\ pair'[p] = <<request[t].device, p>>
      /\ pair'[request[t].device] = <<request[t].device, p>>
      /\ \A d \in Id \ {p, request[t].device} : pair'[d] = pair[d]
  BY <1>0, <1>2, <1>4 DEF Paired, TypeOK, RegistryTypeOK
<1>8. OldRequests
  BY <1>1, <1>2, <1>5, <1>6 DEF OldRequests, SameDevices, Issued
<1> QED BY <1>1, <1>2, <1>4, <1>5, <1>6, <1>7, <1>8

(* The signatures are there: the result names the phone.                   *)
LEMMA PairSignedStep ==
  ASSUME PairingInv, NEW p \in Phone, PairSigned(p)
  PROVE  LET t == scanned[p]
         IN  /\ t \in Token /\ Issued(t) /\ <<t, p>> \in signing
             /\ request'[t].used /\ request'[t].result = p
             /\ \A u \in Token \ {t} : request'[u] = request[u]
             /\ signing' = signing \ {<<t, p>>}
             /\ phone[p] = "asked" /\ phone' = [phone EXCEPT ![p] = "answered"]
             /\ UNCHANGED <<desktopVars, pair, scanned>>
             /\ OldRequests
<1> DEFINE t == scanned[p]
<1> USE Assumptions DEF Assumed
<1>0. TypeOK /\ ScanInv /\ ClaimInv
  BY DEF PairingInv
<1>1. t \in Token
  BY <1>0 DEF PairSigned, ScanInv
<1>2. /\ <<t, p>> \in signing
      /\ request' = ResultStored(t, p)
      /\ signing' = signing \ {<<t, p>>}
      /\ phone[p] = "asked" /\ phone' = [phone EXCEPT ![p] = "answered"]
      /\ UNCHANGED <<desktopVars, pair, scanned>>
  BY DEF PairSigned, Signed
<1>3. Issued(t)
  BY <1>0, <1>1, <1>2 DEF ClaimInv, Claims
<1>4. request \in [Token -> Request \cup {None}] /\ request[t] \in Request
  BY <1>0, <1>1, <1>3 DEF TypeOK, RegistryTypeOK, Issued
<1>5. /\ request'[t] = [request[t] EXCEPT !.used = TRUE, !.result = p]
      /\ \A u \in Token \ {t} : request'[u] = request[u]
  BY <1>1, <1>2, <1>4 DEF ResultStored
<1>6. /\ request'[t].used /\ request'[t].result = p
      /\ request'[t].device = request[t].device /\ request'[t] \in Request
  BY <1>4, <1>5 DEF Request
<1>7. \A u \in Token \ {t} : request'[u] = request[u]
  BY <1>5
<1>8. OldRequests
  BY <1>1, <1>3, <1>6, <1>7 DEF OldRequests, SameDevices, Issued
<1> QED BY <1>1, <1>2, <1>3, <1>6, <1>7, <1>8

(* A poll takes the result of its token.                                   *)
LEMMA PollServedStep ==
  ASSUME PairingInv, NEW q \in polls, PollServed(q)
  PROVE  LET t == q.token
             x == StatusResult(t)
             r == [q EXCEPT !.answer = x]
         IN  /\ t \in Token /\ q.answer = None
             /\ Issued(t) => request'[t].used = request[t].used /\ request'[t].result = None
             /\ \A u \in Token \ {t} : request'[u] = request[u]
             /\ x = None => polls' = polls \ {q}
             /\ x # None => /\ polls' = (polls \ {q}) \cup {r} /\ Issued(t)
                            /\ request[t].result = x /\ x \in Phone
             /\ r.token = t /\ r.answer = x
             /\ UNCHANGED <<fresh, secret, jwt, ui, shown, initing, pair, signing, phone, scanned>>
             /\ OldRequests
<1> DEFINE t == q.token
           x == StatusResult(t)
           r == [q EXCEPT !.answer = x]
<1> USE Assumptions DEF Assumed
<1>0. TypeOK /\ RequestInv
  BY DEF PairingInv
<1>1. q \in Poll /\ t \in Token
  BY <1>0 DEF TypeOK, Poll
<1>2. /\ q.answer = None /\ request' = ResultTaken(t)
      /\ polls' = IF x = None THEN polls \ {q} ELSE (polls \ {q}) \cup {r}
      /\ UNCHANGED <<fresh, secret, jwt, ui, shown, initing, pair, signing, phone, scanned>>
  BY DEF PollServed, pageVars, PairingStatus, phoneVars
<1>3. request \in [Token -> Request \cup {None}]
  BY <1>0 DEF TypeOK, RegistryTypeOK
<1>4. Issued(t) => request[t] \in Request /\ x = request[t].result
  BY <1>1, <1>3 DEF Issued, StatusResult
<1>5. ~ Issued(t) => x = None
  BY DEF StatusResult
<1>6. \A u \in Token \ {t} : request'[u] = request[u]
  BY <1>1, <1>2, <1>3 DEF ResultTaken
<1>7. CASE x = None
  <2>1. request' = request
    BY <1>7, <1>2 DEF ResultTaken
  <2>2. r.token = t /\ r.answer = x
    BY <1>1 DEF Poll
  <2>3. OldRequests
    BY <2>1 DEF OldRequests, SameDevices, Issued
  <2> QED BY <1>1, <1>2, <1>4, <1>6, <1>7, <2>1, <2>2, <2>3
<1>8. CASE x # None
  <2>1. Issued(t) /\ request[t] \in Request /\ x = request[t].result
    BY <1>4, <1>5, <1>8
  <2>2. x \in Phone
    BY <1>0, <1>1, <1>8, <2>1 DEF RequestInv
  <2>3. request'[t] = [request[t] EXCEPT !.result = None]
    BY <1>1, <1>2, <1>3, <1>8 DEF ResultTaken
  <2>4. /\ request'[t] \in Request /\ request'[t].device = request[t].device
        /\ request'[t].used = request[t].used /\ request'[t].result = None
    BY <2>1, <2>3 DEF Request
  <2>5. r.token = t /\ r.answer = x
    BY <1>1 DEF Poll
  <2>6. OldRequests
    BY <1>1, <1>6, <2>1, <2>4 DEF OldRequests, SameDevices, Issued
  <2> QED BY <1>1, <1>2, <1>6, <1>8, <2>1, <2>2, <2>4, <2>5, <2>6
<1> QED BY <1>7, <1>8

LEMMA ExpireStep ==
  ASSUME PairingInv, NEW t \in Token, ExpireRequest(t)
  PROVE  /\ OldRequests
         /\ \A u \in Token : Issued(u) =>
              request'[u].used = request[u].used /\ request'[u].result = request[u].result
         /\ UNCHANGED <<desktopVars, phoneVars, pair, signing>>
<1> USE Assumptions DEF Assumed
<1>1. /\ request \in [Token -> Request \cup {None}] /\ Issued(t)
      /\ request' = [request EXCEPT ![t].expired = TRUE]
      /\ UNCHANGED <<desktopVars, phoneVars, pair, signing>>
  BY DEF PairingInv, TypeOK, RegistryTypeOK, ExpireRequest, Expire
<1>2. request[t] \in Request
  BY <1>1 DEF Issued
<1>3. request'[t] = [request[t] EXCEPT !.expired = TRUE]
      /\ \A u \in Token \ {t} : request'[u] = request[u]
  BY <1>1
<1>4. /\ request'[t] \in Request /\ request'[t].device = request[t].device
      /\ request'[t].used = request[t].used /\ request'[t].result = request[t].result
  BY <1>2, <1>3 DEF Request
<1>5. OldRequests
  BY <1>1, <1>3, <1>4 DEF OldRequests, SameDevices, Issued
<1> QED BY <1>1, <1>3, <1>4, <1>5

(* The steps that leave the registry alone.                                *)
LEMMA UntouchedStep ==
  ASSUME UNCHANGED request
  PROVE  OldRequests
BY DEF OldRequests, SameDevices, Issued

(* UnpairCall reaches nobody.                                              *)
LEMMA UnpairStep ==
  ASSUME Unpair
  PROVE  /\ UNCHANGED <<registryVars, fresh, shown, initing, polls, phoneVars>>
         /\ jwt' = None /\ secret' = None /\ ui' = "idle" /\ ui = "paired" /\ initing = "no"
BY DEF Unpair, UnpairCall, UnpairRouted

-----------------------------------------------------------------------------
(* What the page knows of the stored id.                                   *)
LEMMA DeskFrame ==
  ASSUME PairingInv, SameDevices, UNCHANGED <<fresh, secret, initing, ui, shown>>
  PROVE  DeskInv'
BY DEF PairingInv, TypeOK, DeskInv, SameDevices, Issued

LEMMA DeskStep == PairingInv /\ [Next]_vars => DeskInv'
<1> SUFFICES ASSUME PairingInv, [Next]_vars PROVE DeskInv'
  OBVIOUS
<1>0. TypeOK /\ DeskInv
  BY DEF PairingInv
<1> USE <1>0, Assumptions DEF Assumed
<1>1. ASSUME NEW d \in Desk, StartPairing(d) PROVE DeskInv'
  BY <1>1 DEF StartPairing, DeskInv
<1>2. ASSUME NEW t \in Token, InitServed(t) PROVE DeskInv'
  BY <1>2, InitServedStep DEF NewRequest, DeskInv, Issued
<1>3. ASSUME NEW t \in Token, ExpireRequest(t) PROVE DeskInv'
  BY <1>3, ExpireStep, DeskFrame DEF OldRequests, desktopVars, pageVars
<1>4. CASE InitAnswered \/ InitFails \/ Cancel \/ CountdownEnds
  BY <1>4 DEF InitAnswered, InitFails, Cancel, CountdownEnds, DeskInv, registryVars, Issued
<1>5. CASE Remount
  BY <1>5 DEF Remount, DeskInv, registryVars, Issued
<1>6. CASE Unpair
  BY <1>6, UnpairStep DEF DeskInv, registryVars, Issued, TypeOK
<1>7. CASE PollStatus \/ \E t \in left : LeftPoll(t)
  BY <1>7, UntouchedStep, DeskFrame DEF PollStatus, LeftPoll, pageVars, OldRequests, registryVars
<1>8. ASSUME NEW q \in polls, PollServed(q) PROVE DeskInv'
  BY <1>8, PollServedStep, DeskFrame DEF OldRequests
<1>9. ASSUME NEW q \in polls, PollFails(q) PROVE DeskInv'
  BY <1>9, UntouchedStep, DeskFrame DEF PollFails, pageVars, OldRequests, registryVars
<1>10. ASSUME NEW q \in polls, PollStored(q) PROVE DeskInv'
  BY <1>10 DEF PollStored, DeskInv, registryVars, Issued
<1>11. ASSUME NEW p \in Phone,
              Scan(p) \/ PairRefused(p) \/ PhonePaired(p) \/ PushServed(p) \/ PushFails(p)
                \/ PhoneUnpairs(p) \/ PairFails(p)
       PROVE  DeskInv'
  <2>1. UNCHANGED <<request, desktopVars>>
    BY <1>11 DEF Scan, PairRefused, PhonePaired, PushServed, PushFails, PhoneUnpairs,
                 PairFails, SigningLost, SetPushToken, DeletePushToken, registryVars
  <2> QED BY <2>1, UntouchedStep, DeskFrame DEF OldRequests, desktopVars, pageVars
<1>12. ASSUME NEW p \in Phone, PairServed(p) PROVE DeskInv'
  BY <1>12, PairServedStep, DeskFrame DEF OldRequests, desktopVars, pageVars
<1>13. ASSUME NEW p \in Phone, PairSigned(p) PROVE DeskInv'
  BY <1>13, PairSignedStep, DeskFrame DEF OldRequests, desktopVars, pageVars
<1>14. CASE UNCHANGED vars
  BY <1>14, UntouchedStep, DeskFrame DEF vars, OldRequests, desktopVars, pageVars, registryVars
<1> QED
  BY <1>1, <1>2, <1>3, <1>4, <1>5, <1>6, <1>7, <1>8, <1>9, <1>10, <1>11, <1>12,
     <1>13, <1>14 DEF Next

-----------------------------------------------------------------------------
(* The ids of requests.                                                    *)
LEMMA RequestFrame ==
  ASSUME PairingInv, OldRequests, UNCHANGED <<fresh, secret, initing>>,
         \A t \in Token : Issued(t) => request'[t].result \in Phone \cup {None}
  PROVE  RequestInv'
BY DEF PairingInv, RequestInv, OldRequests, SameDevices, Unclaimed

LEMMA UntouchedRequestFrame ==
  ASSUME PairingInv, UNCHANGED request,
         \A d \in Desk : Unclaimed(d)' => Unclaimed(d) \/ d \in fresh
  PROVE  RequestInv'
BY DEF PairingInv, RequestInv, Unclaimed, Issued

LEMMA RequestStep == PairingInv /\ [Next]_vars => RequestInv'
<1> SUFFICES ASSUME PairingInv, [Next]_vars PROVE RequestInv'
  OBVIOUS
<1>0. TypeOK /\ DeskInv /\ RequestInv
  BY DEF PairingInv
<1> USE <1>0, Assumptions DEF Assumed
<1>a. \A t \in Token : Issued(t) => request[t].result \in Phone \cup {None}
  BY DEF RequestInv
<1>1. ASSUME NEW d \in Desk, StartPairing(d) PROVE RequestInv'
  BY <1>1, UntouchedRequestFrame DEF StartPairing, Unclaimed, registryVars
<1>2. ASSUME NEW t \in Token, InitServed(t) PROVE RequestInv'
  <2>1. NewRequest(t) /\ SameDevices
    BY <1>2, InitServedStep
  <2>2. ~ Unclaimed(secret)' /\ secret \in Desk
    BY <2>1 DEF NewRequest, Unclaimed, DeskInv
  <2>3. \A d \in Desk : Unclaimed(d)' => Unclaimed(d)
    BY <2>1 DEF NewRequest, Unclaimed
  <2>4. \A u \in Token \ {t} : Issued(u) => request[u].device # secret
    BY <2>1 DEF NewRequest, RequestInv, Unclaimed
  <2>5. \A u \in Token : Issued(u)' => u = t \/ (u # t /\ Issued(u) /\ request'[u] = request[u])
    BY <2>1 DEF NewRequest, Issued
  <2>6. request'[t].device = secret /\ request'[t].result = None
    BY <2>1 DEF NewRequest
  <2>7. \A u \in Token : Issued(u)' =>
          /\ request'[u].device \in Desk
          /\ (~ Unclaimed(request[u].device))'
          /\ request'[u].result \in Phone \cup {None}
    <3> SUFFICES ASSUME NEW u \in Token, Issued(u)'
                 PROVE  /\ request'[u].device \in Desk
                        /\ (~ Unclaimed(request[u].device))'
                        /\ request'[u].result \in Phone \cup {None}
      OBVIOUS
    <3>1. CASE u = t
      BY <3>1, <2>1, <2>2, <2>6 DEF Unclaimed, NewRequest
    <3>2. CASE u # t /\ Issued(u) /\ request'[u] = request[u]
      BY <3>2, <2>1 DEF Unclaimed, NewRequest, RequestInv
    <3> QED BY <3>1, <3>2, <2>5
  <2>8. \A u, v \in Token :
          Issued(u)' /\ Issued(v)' /\ request'[u].device = request'[v].device => u = v
    BY <2>4, <2>5, <2>6 DEF RequestInv
  <2> QED BY <2>7, <2>8 DEF RequestInv, Unclaimed
<1>3. ASSUME NEW t \in Token, ExpireRequest(t) PROVE RequestInv'
  BY <1>3, <1>a, ExpireStep, RequestFrame DEF desktopVars, pageVars
<1>4. CASE InitAnswered \/ InitFails \/ Cancel \/ CountdownEnds
  BY <1>4, UntouchedRequestFrame
     DEF InitAnswered, InitFails, Cancel, CountdownEnds, registryVars, Unclaimed
<1>5. CASE Remount
  BY <1>5, UntouchedRequestFrame DEF Remount, registryVars, Unclaimed
<1>6. CASE Unpair
  BY <1>6, UnpairStep, UntouchedRequestFrame DEF registryVars, Unclaimed
<1>7. CASE PollStatus \/ \E t \in left : LeftPoll(t)
  BY <1>7, UntouchedRequestFrame DEF PollStatus, LeftPoll, pageVars, registryVars, Unclaimed
<1>8. ASSUME NEW q \in polls, PollServed(q) PROVE RequestInv'
  BY <1>8, <1>a, PollServedStep, RequestFrame
<1>9. ASSUME NEW q \in polls, PollFails(q) \/ PollStored(q) PROVE RequestInv'
  BY <1>9, UntouchedRequestFrame DEF PollFails, pageVars, PollStored, registryVars, Unclaimed
<1>11. ASSUME NEW p \in Phone,
              Scan(p) \/ PairRefused(p) \/ PhonePaired(p) \/ PushServed(p) \/ PushFails(p)
                \/ PhoneUnpairs(p) \/ PairFails(p)
       PROVE  RequestInv'
  <2>1. UNCHANGED <<request, desktopVars>>
    BY <1>11 DEF Scan, PairRefused, PhonePaired, PushServed, PushFails, PhoneUnpairs,
                 PairFails, SigningLost, SetPushToken, DeletePushToken, registryVars
  <2> QED BY <2>1, UntouchedRequestFrame DEF Unclaimed, desktopVars, pageVars
<1>12. ASSUME NEW p \in Phone, PairServed(p) PROVE RequestInv'
  BY <1>12, <1>a, PairServedStep, RequestFrame DEF desktopVars, pageVars
<1>13. ASSUME NEW p \in Phone, PairSigned(p) PROVE RequestInv'
  <2> DEFINE t == scanned[p]
  <2>1. /\ t \in Token /\ request'[t].result = p
        /\ \A u \in Token \ {t} : request'[u] = request[u]
        /\ OldRequests /\ UNCHANGED <<fresh, secret, initing>>
    BY <1>13, PairSignedStep DEF desktopVars, pageVars
  <2>2. \A u \in Token : Issued(u) => request'[u].result \in Phone \cup {None}
    BY <1>a, <2>1
  <2> QED BY <2>1, <2>2, RequestFrame
<1>14. CASE UNCHANGED vars
  BY <1>14, UntouchedRequestFrame DEF vars, Unclaimed, desktopVars, pageVars, registryVars
<1> QED
  BY <1>1, <1>2, <1>3, <1>4, <1>5, <1>6, <1>7, <1>8, <1>9, <1>11, <1>12,
     <1>13, <1>14 DEF Next

-----------------------------------------------------------------------------
(* No step takes back that an id was used, or changes a request's id.      *)
LEMMA Monotone ==
  PairingInv /\ [Next]_vars => SameDevices /\ \A d \in Desk : Unclaimed(d)' => Unclaimed(d)
<1> SUFFICES ASSUME PairingInv, [Next]_vars
             PROVE  SameDevices /\ \A d \in Desk : Unclaimed(d)' => Unclaimed(d)
  OBVIOUS
<1> DEFINE Goal == SameDevices /\ \A d \in Desk : Unclaimed(d)' => Unclaimed(d)
<1>0. TypeOK /\ DeskInv
  BY DEF PairingInv
<1> USE Assumptions DEF Assumed
<1>a. ASSUME UNCHANGED <<fresh, secret, initing>> PROVE \A d \in Desk : Unclaimed(d)' => Unclaimed(d)
  BY <1>a DEF Unclaimed
<1>1. ASSUME NEW d \in Desk, StartPairing(d) PROVE Goal
  BY <1>1, UntouchedStep DEF StartPairing, Unclaimed, registryVars, OldRequests
<1>2. ASSUME NEW t \in Token, InitServed(t) PROVE Goal
  BY <1>2, InitServedStep DEF NewRequest, Unclaimed
<1>3. ASSUME NEW t \in Token, ExpireRequest(t) PROVE Goal
  BY <1>3, <1>a, ExpireStep DEF OldRequests, desktopVars, pageVars
<1>4. CASE InitAnswered \/ InitFails \/ Cancel \/ CountdownEnds
  BY <1>4, UntouchedStep
     DEF InitAnswered, InitFails, Cancel, CountdownEnds, Unclaimed, registryVars, OldRequests
<1>5. CASE Remount
  BY <1>5, UntouchedStep DEF Remount, Unclaimed, registryVars, OldRequests
<1>6. CASE Unpair
  BY <1>6, UnpairStep, UntouchedStep DEF registryVars, OldRequests, Unclaimed
<1>7. CASE PollStatus \/ \E t \in left : LeftPoll(t)
  BY <1>7, <1>a, UntouchedStep DEF PollStatus, LeftPoll, pageVars, OldRequests, registryVars
<1>8. ASSUME NEW q \in polls, PollServed(q) PROVE Goal
  BY <1>8, <1>a, PollServedStep DEF OldRequests
<1>9. ASSUME NEW q \in polls, PollFails(q) \/ PollStored(q) PROVE Goal
  BY <1>9, <1>a, UntouchedStep DEF PollFails, pageVars, PollStored, OldRequests, registryVars
<1>11. ASSUME NEW p \in Phone,
              Scan(p) \/ PairRefused(p) \/ PhonePaired(p) \/ PushServed(p) \/ PushFails(p)
                \/ PhoneUnpairs(p) \/ PairFails(p)
       PROVE  Goal
  <2>1. UNCHANGED <<request, desktopVars>>
    BY <1>11 DEF Scan, PairRefused, PhonePaired, PushServed, PushFails, PhoneUnpairs,
                 PairFails, SigningLost, SetPushToken, DeletePushToken, registryVars
  <2> QED BY <2>1, <1>a, UntouchedStep DEF OldRequests, desktopVars, pageVars
<1>12. ASSUME NEW p \in Phone, PairServed(p) PROVE Goal
  BY <1>12, <1>a, PairServedStep DEF OldRequests, desktopVars, pageVars
<1>13. ASSUME NEW p \in Phone, PairSigned(p) PROVE Goal
  BY <1>13, <1>a, PairSignedStep DEF OldRequests, desktopVars, pageVars
<1>14. CASE UNCHANGED vars
  BY <1>14, <1>a, UntouchedStep DEF vars, OldRequests, desktopVars, pageVars, registryVars
<1> QED
  BY <1>1, <1>2, <1>3, <1>4, <1>5, <1>6, <1>7, <1>8, <1>9, <1>11, <1>12,
     <1>13, <1>14 DEF Next

-----------------------------------------------------------------------------
(* The steps that neither serve, drop nor store a poll nor touch the JWT:  *)
(* the polls are the same, or a new one has no answer.                     *)
PollsSame ==
  /\ \A q \in polls' : q.answer # None => q \in polls
  /\ UNCHANGED jwt

(* A page that is entered again knows the same answers.                    *)
LEMMA RemountAnswers ==
  ASSUME PairingInv, Remount
  PROVE  /\ \A r \in polls' : \E q \in polls :
              r = [q EXCEPT !.mounted = FALSE] /\ r.token = q.token /\ r.answer = q.answer
         /\ UNCHANGED <<registryVars, fresh, secret, jwt, json, phoneVars>>
<1>1. polls \subseteq Poll
  BY DEF PairingInv, TypeOK
<1>2. /\ polls' = {[q EXCEPT !.mounted = FALSE] : q \in polls}
      /\ UNCHANGED <<registryVars, fresh, secret, jwt, json, phoneVars>>
  BY DEF Remount
<1>3. ASSUME NEW q \in polls
      PROVE  /\ [q EXCEPT !.mounted = FALSE].token = q.token
             /\ [q EXCEPT !.mounted = FALSE].answer = q.answer
  BY <1>1, Unmounted
<1> QED BY <1>2, <1>3

(* The other steps of the polls and the JWT.                               *)
LEMMA PollsSameStep ==
  ASSUME PairingInv, [Next]_vars
  PROVE  \/ PollsSame
         \/ Remount \/ Unpair
         \/ \E q \in polls : PollServed(q) \/ PollStored(q)
<1>0. TypeOK
  BY DEF PairingInv
<1> USE DEF PollsSame
<1>1. ASSUME NEW d \in Desk, StartPairing(d) PROVE PollsSame
  BY <1>1 DEF StartPairing
<1>2. ASSUME NEW t \in Token, InitServed(t) \/ ExpireRequest(t) PROVE PollsSame
  BY <1>2 DEF InitServed, ExpireRequest, desktopVars, pageVars
<1>4. CASE InitAnswered \/ InitFails \/ Cancel \/ CountdownEnds
  BY <1>4 DEF InitAnswered, InitFails, Cancel, CountdownEnds
<1>7. CASE PollStatus \/ \E t \in left : LeftPoll(t)
  BY <1>7 DEF PollStatus, LeftPoll, pageVars
<1>9. ASSUME NEW q \in polls, PollFails(q) PROVE PollsSame
  BY <1>9 DEF PollFails, pageVars
<1>11. ASSUME NEW p \in Phone,
              Scan(p) \/ PairRefused(p) \/ PhonePaired(p) \/ PushServed(p) \/ PushFails(p)
                \/ PhoneUnpairs(p) \/ PairFails(p) \/ PairServed(p) \/ PairSigned(p)
       PROVE  PollsSame
  BY <1>11 DEF Scan, PairRefused, PhonePaired, PushServed, PushFails, PhoneUnpairs,
               PairFails, PairServed, PairSigned, desktopVars, pageVars
<1>14. CASE UNCHANGED vars
  BY <1>14 DEF vars, desktopVars, pageVars
<1> QED
  BY <1>1, <1>2, <1>4, <1>7, <1>9, <1>11, <1>14 DEF Next

LEMMA AnswerStep == PairingInv /\ [Next]_vars => AnswerInv'
<1> SUFFICES ASSUME PairingInv, [Next]_vars PROVE AnswerInv'
  OBVIOUS
<1>0. TypeOK /\ RequestInv /\ AnswerInv
  BY DEF PairingInv
<1> USE Assumptions DEF Assumed
<1>a. SameDevices /\ \A d \in Desk : Unclaimed(d)' => Unclaimed(d)
  BY Monotone
<1>b. \A q \in polls : q.token \in Token
  BY <1>0 DEF TypeOK, Poll
<1>c. jwt # None => jwt[1] \in Desk
  BY <1>0 DEF TypeOK
<1> DEFINE Answered == \A q \in polls : q.answer # None => Issued(q.token) /\ q.answer \in Phone
           Known == jwt # None => ~ Unclaimed(jwt[1])
<1>1. ASSUME UNCHANGED jwt PROVE Known'
  BY <1>0, <1>a, <1>c, <1>1 DEF AnswerInv, Unclaimed
<1>2. CASE PollsSame
  BY <1>0, <1>a, <1>b, <1>1, <1>2 DEF AnswerInv, PollsSame, SameDevices
<1>3. CASE Remount
  <2>1. UNCHANGED <<jwt, request>>
    BY <1>3, RemountAnswers DEF registryVars
  <2>2. Answered'
    BY <1>0, <1>3, <2>1, RemountAnswers DEF AnswerInv, Issued
  <2> QED BY <1>1, <2>1, <2>2 DEF AnswerInv
<1>4. CASE Unpair
  BY <1>0, <1>4, UnpairStep DEF AnswerInv, registryVars, Issued
<1>5. ASSUME NEW q \in polls, PollServed(q) PROVE AnswerInv'
  <2> DEFINE x == StatusResult(q.token)
             r == [q EXCEPT !.answer = x]
  <2>1. /\ UNCHANGED jwt
        /\ x = None => polls' = polls \ {q}
        /\ x # None => polls' = (polls \ {q}) \cup {r} /\ Issued(q.token) /\ x \in Phone
        /\ r.token = q.token /\ r.answer = x
    BY <1>5, PollServedStep
  <2>2. \A s \in polls' : s.answer # None => s \in polls \/ (s = r /\ x # None)
    BY <2>1
  <2>3. Answered'
    BY <1>0, <1>a, <1>b, <2>1, <2>2 DEF AnswerInv, SameDevices
  <2> QED BY <1>1, <2>1, <2>3 DEF AnswerInv
<1>6. ASSUME NEW q \in polls, PollStored(q) PROVE AnswerInv'
  <2>1. /\ polls' = polls \ {q} /\ q.answer # None
        /\ jwt' = <<request[q.token].device, q.answer>>
        /\ UNCHANGED <<request, fresh, initing, secret>>
    BY <1>6 DEF PollStored, registryVars
  <2>2. Issued(q.token) /\ q.token \in Token
    BY <1>0, <1>b, <2>1 DEF AnswerInv
  <2>3. ~ Unclaimed(request[q.token].device)
    BY <1>0, <2>2 DEF RequestInv
  <2>4. Known'
    BY <2>1, <2>3 DEF Unclaimed
  <2>5. Answered'
    BY <1>0, <2>1 DEF AnswerInv, Issued
  <2> QED BY <2>4, <2>5 DEF AnswerInv
<1> QED BY <1>2, <1>3, <1>4, <1>5, <1>6, PollsSameStep

-----------------------------------------------------------------------------
(* The scans whose completion waits are those of phones that wait.         *)
PhonesSame == UNCHANGED <<phone, scanned, signing, pair>>

LEMMA PhonesSameStep ==
  ASSUME PairingInv, [Next]_vars
  PROVE  \/ PhonesSame
         \/ \E p \in Phone : \/ Scan(p) \/ PairServed(p) \/ PairRefused(p) \/ PairSigned(p)
                             \/ PairFails(p) \/ PhonePaired(p) \/ PhoneUnpairs(p)
<1> USE DEF PhonesSame
<1>1. ASSUME NEW d \in Desk, StartPairing(d) PROVE PhonesSame
  BY <1>1 DEF StartPairing, phoneVars, registryVars
<1>2. ASSUME NEW t \in Token, InitServed(t) \/ ExpireRequest(t) PROVE PhonesSame
  BY <1>2 DEF InitServed, InitPairing, ExpireRequest, Expire, phoneVars
<1>4. CASE InitAnswered \/ InitFails \/ Cancel \/ CountdownEnds \/ Remount
  BY <1>4 DEF InitAnswered, InitFails, Cancel, CountdownEnds, Remount, phoneVars, registryVars
<1>6. CASE Unpair
  BY <1>6, UnpairStep DEF phoneVars, registryVars
<1>7. CASE PollStatus \/ \E t \in left : LeftPoll(t)
  BY <1>7 DEF PollStatus, LeftPoll, pageVars, phoneVars, registryVars
<1>8. ASSUME NEW q \in polls, PollServed(q) \/ PollFails(q) \/ PollStored(q) PROVE PhonesSame
  BY <1>8 DEF PollServed, pageVars, PairingStatus, PollFails, PollStored, phoneVars, registryVars
<1>9. ASSUME NEW p \in Phone, PushServed(p) \/ PushFails(p) PROVE PhonesSame
  BY <1>9 DEF PushServed, PushFails, SetPushToken, registryVars
<1>14. CASE UNCHANGED vars
  BY <1>14 DEF vars, phoneVars, registryVars
<1> QED
  BY <1>1, <1>2, <1>4, <1>6, <1>7, <1>8, <1>9, <1>14 DEF Next

LEMMA ScanStep == PairingInv /\ [Next]_vars => ScanInv'
<1> SUFFICES ASSUME PairingInv, [Next]_vars PROVE ScanInv'
  OBVIOUS
<1>0. TypeOK /\ ScanInv
  BY DEF PairingInv
<1>t. /\ phone \in [Phone -> {"idle", "asked", "answered", "paired", "failed", "unpaired"}]
      /\ scanned \in [Phone -> Token \cup {None}]
      /\ ui \in {"qr", "expired"} => shown \in Token
  BY <1>0 DEF TypeOK
<1> USE Assumptions DEF Assumed
<1>1. CASE PhonesSame
  BY <1>0, <1>1 DEF ScanInv, PhonesSame
<1>2. ASSUME NEW p \in Phone, Scan(p) PROVE ScanInv'
  BY <1>0, <1>t, <1>2 DEF Scan, ScanInv, registryVars
<1>3. ASSUME NEW p \in Phone, PairServed(p) PROVE ScanInv'
  <2>1. /\ phone[p] = "asked" /\ scanned[p] \in Token
        /\ signing' = signing \cup {<<scanned[p], p>>} /\ UNCHANGED <<phone, scanned>>
    BY <1>3, PairServedStep DEF Pending
  <2> QED BY <1>0, <2>1 DEF ScanInv
<1>4. ASSUME NEW p \in Phone, PairRefused(p) PROVE ScanInv'
  BY <1>0, <1>t, <1>4 DEF PairRefused, Pending, ScanInv, registryVars
<1>5. ASSUME NEW p \in Phone, PairSigned(p) PROVE ScanInv'
  BY <1>0, <1>t, <1>5 DEF PairSigned, Signed, ScanInv
<1>6. ASSUME NEW p \in Phone, PairFails(p) PROVE ScanInv'
  BY <1>0, <1>t, <1>6 DEF PairFails, Pending, SigningLost, ScanInv, registryVars
<1>7. ASSUME NEW p \in Phone, PhonePaired(p) PROVE ScanInv'
  BY <1>0, <1>t, <1>7 DEF PhonePaired, ScanInv, registryVars
<1>8. ASSUME NEW p \in Phone, PhoneUnpairs(p) PROVE ScanInv'
  BY <1>0, <1>t, <1>8 DEF PhoneUnpairs, DeletePushToken, ScanInv, registryVars
<1> QED BY <1>1, <1>2, <1>3, <1>4, <1>5, <1>6, <1>7, <1>8, PhonesSameStep

-----------------------------------------------------------------------------
(* What a step may do to the claims: only a completion adds one, and only  *)
(* signing one makes a phone hold it.                                      *)
ClaimsSame ==
  /\ \A p \in Phone, t \in Token : Claims(p, t)' => Claims(p, t)
  /\ \A p \in Phone, t \in Token : Holds(p, t)' => Holds(p, t)
  /\ \A p \in Phone : (phone[p] = "idle" \/ Pending(p))' => phone[p] = "idle" \/ Pending(p)
  /\ signing' \subseteq signing
  /\ UNCHANGED pair

LEMMA ClaimsSameStep ==
  ASSUME PairingInv, [Next]_vars
  PROVE  ClaimsSame \/ \E p \in Phone : PairServed(p) \/ PairSigned(p)
<1>0. TypeOK /\ ScanInv
  BY DEF PairingInv
<1>t. /\ phone \in [Phone -> {"idle", "asked", "answered", "paired", "failed", "unpaired"}]
      /\ scanned \in [Phone -> Token \cup {None}]
  BY <1>0 DEF TypeOK
<1>1. CASE PhonesSame
  BY <1>1 DEF PhonesSame, ClaimsSame, Claims, Holds, Pending
<1>2. ASSUME NEW p \in Phone, Scan(p) PROVE ClaimsSame
  BY <1>0, <1>t, <1>2 DEF Scan, ScanInv, registryVars, ClaimsSame, Claims, Holds, Pending
<1>4. ASSUME NEW p \in Phone, PairRefused(p) PROVE ClaimsSame
  BY <1>0, <1>t, <1>4 DEF PairRefused, registryVars, ClaimsSame, Claims, Holds, Pending
<1>6. ASSUME NEW p \in Phone, PairFails(p) PROVE ClaimsSame
  <2>1. /\ phone' = [phone EXCEPT ![p] = "failed"]
        /\ signing' = signing \/ signing' = signing \ {<<scanned[p], p>>}
        /\ UNCHANGED <<scanned, pair>>
    BY <1>6 DEF PairFails, SigningLost, registryVars
  <2>2. \A q \in Phone, t \in Token : q # p => <<t, q>> # <<scanned[p], p>>
    OBVIOUS
  <2>3. \A q \in Phone \ {p} : phone'[q] = phone[q]
    BY <1>t, <2>1
  <2>4. phone'[p] = "failed" /\ signing' \subseteq signing /\ UNCHANGED <<scanned, pair>>
    BY <1>t, <2>1
  <2>5. \A q \in Phone \ {p}, t \in Token : <<t, q>> \in signing <=> <<t, q>> \in signing'
    BY <2>1, <2>2
  <2>6. \A q \in Phone : q # p /\ phone[q] = "asked" => scanned[q] \in Token
    BY <1>0 DEF ScanInv
  <2>7. \A q \in Phone : Pending(q)' => Pending(q)
    BY <2>3, <2>4, <2>5, <2>6 DEF Pending
  <2>8. \A q \in Phone, t \in Token : Holds(q, t)' => Holds(q, t)
    BY <2>3, <2>4 DEF Holds
  <2>9. \A q \in Phone, t \in Token : Claims(q, t)' => Claims(q, t)
    BY <2>8, <2>4 DEF Claims
  <2>10. \A q \in Phone : phone'[q] = "idle" => phone[q] = "idle"
    BY <2>3, <2>4
  <2> QED BY <2>4, <2>7, <2>8, <2>9, <2>10 DEF ClaimsSame
<1>7. ASSUME NEW p \in Phone, PhonePaired(p) PROVE ClaimsSame
  BY <1>0, <1>t, <1>7 DEF PhonePaired, registryVars, ClaimsSame, Claims, Holds, Pending
<1>8. ASSUME NEW p \in Phone, PhoneUnpairs(p) PROVE ClaimsSame
  BY <1>0, <1>t, <1>8
     DEF PhoneUnpairs, DeletePushToken, registryVars, ClaimsSame, Claims, Holds, Pending
<1> QED BY <1>1, <1>2, <1>4, <1>6, <1>7, <1>8, PhonesSameStep

(* When a completion is signed, its claim becomes the phone's.             *)
LEMMA SignedClaims ==
  ASSUME PairingInv, NEW p \in Phone, PairSigned(p)
  PROVE  /\ \A q \in Phone, t \in Token : Claims(q, t)' => Claims(q, t)
         /\ \A q \in Phone, t \in Token :
              Holds(q, t)' => Holds(q, t) \/ (q = p /\ t = scanned[p])
         /\ \A q \in Phone : (phone[q] = "idle" \/ Pending(q))' => phone[q] = "idle" \/ Pending(q)
         /\ UNCHANGED pair
<1>0. TypeOK /\ ScanInv
  BY DEF PairingInv
<1>1. /\ scanned[p] \in Token /\ <<scanned[p], p>> \in signing
      /\ signing' = signing \ {<<scanned[p], p>>}
      /\ phone' = [phone EXCEPT ![p] = "answered"]
      /\ UNCHANGED <<pair, scanned>>
  BY PairSignedStep
<1>2. phone'[p] = "answered" /\ \A q \in Phone \ {p} : phone'[q] = phone[q]
  BY <1>0, <1>1 DEF TypeOK
<1>3. \A q \in Phone, t \in Token : q # p => <<t, q>> # <<scanned[p], p>>
  OBVIOUS
<1>4. /\ signing' \subseteq signing
      /\ \A q \in Phone \ {p}, t \in Token : <<t, q>> \in signing <=> <<t, q>> \in signing'
  BY <1>1, <1>3
<1>5. \A q \in Phone, t \in Token : Holds(q, t)' => Holds(q, t) \/ (q = p /\ t = scanned[p])
  BY <1>1, <1>2 DEF Holds
<1>6. \A q \in Phone, t \in Token : Claims(q, t)' => Claims(q, t)
  BY <1>1, <1>4, <1>5 DEF Claims
<1>7. \A q \in Phone : phone[q] = "asked" => scanned[q] \in Token
  BY <1>0 DEF ScanInv
<1>8. \A q \in Phone : (phone[q] = "idle" \/ Pending(q))' => phone[q] = "idle" \/ Pending(q)
  BY <1>1, <1>2, <1>4, <1>7 DEF Pending
<1> QED BY <1>1, <1>5, <1>6, <1>8

-----------------------------------------------------------------------------
(* One phone per token.                                                    *)
LEMMA ClaimStep == PairingInv /\ [Next]_vars => ClaimInv'
<1> SUFFICES ASSUME PairingInv, [Next]_vars PROVE ClaimInv'
  OBVIOUS
<1>0. TypeOK /\ ScanInv /\ ClaimInv
  BY DEF PairingInv
<1> USE Assumptions DEF Assumed
<1>a. SameDevices
  BY Monotone
<1>b. ASSUME \A q \in Phone, u \in Token : Claims(q, u)' => Claims(q, u), UNCHANGED pair
      PROVE  ClaimInv'
  BY <1>0, <1>a, <1>b DEF ClaimInv, SameDevices
<1>1. CASE ClaimsSame
  BY <1>b, <1>1 DEF ClaimsSame
<1>2. ASSUME NEW p \in Phone, PairSigned(p) PROVE ClaimInv'
  BY <1>b, <1>2, SignedClaims
<1>3. ASSUME NEW p \in Phone, PairServed(p) PROVE ClaimInv'
  <2> DEFINE t == scanned[p]
             d == request[t].device
  <2>1. /\ t \in Token /\ Issued(t) /\ ~ request[t].used /\ Pending(p)
        /\ d \in Desk /\ request'[t].used
        /\ pair'[p] = <<d, p>>
        /\ \A e \in Id \ {p, d} : pair'[e] = pair[e]
        /\ signing' = signing \cup {<<t, p>>}
        /\ UNCHANGED <<phone, scanned>>
    BY <1>3, PairServedStep
  <2>2. \A q \in Phone, u \in Token : Claims(q, u)' => Claims(q, u) \/ (q = p /\ u = t)
    BY <2>1 DEF Claims, Holds
  <2>3. \A u \in Token : ~ Claims(p, u)
    BY <1>0, <2>1 DEF Claims, Holds, Pending, ScanInv
  <2>4. \A q \in Phone : ~ Claims(q, t)
    BY <1>0, <2>1 DEF ClaimInv
  <2>5. \A q \in Phone, u \in Token : Claims(q, u) => q # p /\ u # t /\ pair'[q] = pair[q]
    BY <2>1, <2>3, <2>4
  <2>6. request'[t].device = d /\ Issued(t)'
    BY <1>a, <2>1 DEF SameDevices
  <2> SUFFICES ASSUME NEW q \in Phone, NEW u \in Token, Claims(q, u)'
               PROVE  /\ Issued(u)' /\ request'[u].used
                      /\ pair'[q] = <<request'[u].device, q>>
                      /\ \A r \in Phone : Claims(r, u)' => r = q
    BY DEF ClaimInv
  <2>7. CASE q = p /\ u = t
    BY <2>1, <2>2, <2>4, <2>6, <2>7
  <2>8. CASE Claims(q, u)
    <3>1. q # p /\ u # t /\ pair'[q] = pair[q]
      BY <2>5, <2>8
    <3>2. /\ Issued(u) /\ request[u].used
          /\ pair[q] = <<request[u].device, q>>
          /\ \A r \in Phone : Claims(r, u) => r = q
      BY <1>0, <2>8 DEF ClaimInv
    <3> QED BY <1>a, <2>2, <3>1, <3>2 DEF SameDevices
  <2> QED BY <2>2, <2>7, <2>8
<1> QED BY <1>1, <1>2, <1>3, ClaimsSameStep

-----------------------------------------------------------------------------
(* Pairs.                                                                  *)
LEMMA PairStep == PairingInv /\ [Next]_vars => PairInv'
<1> SUFFICES ASSUME PairingInv, [Next]_vars PROVE PairInv'
  OBVIOUS
<1>0. TypeOK /\ DeskInv /\ RequestInv /\ ScanInv /\ PairInv
  BY DEF PairingInv
<1> USE Assumptions DEF Assumed
<1>a. SameDevices /\ \A d \in Desk : Unclaimed(d)' => Unclaimed(d)
  BY Monotone
<1>n. \A t \in Token : Issued(t)' => Issued(t) \/ NewRequest(t)
  <2>1. CASE \E t \in Token : InitServed(t)
    BY <2>1, InitServedStep DEF NewRequest, Issued
  <2>2. ASSUME OldRequests PROVE \A t \in Token : Issued(t)' => Issued(t) \/ NewRequest(t)
    BY <2>2 DEF OldRequests
  <2>3. ASSUME NEW d \in Desk, StartPairing(d) PROVE OldRequests
    BY <2>3, UntouchedStep DEF StartPairing, registryVars
  <2>4. ASSUME NEW t \in Token, ExpireRequest(t) PROVE OldRequests
    BY <2>4, ExpireStep
  <2>5. ASSUME InitAnswered \/ InitFails \/ Cancel \/ CountdownEnds \/ Remount \/ PollStatus
              \/ \E t \in left : LeftPoll(t)
        PROVE  OldRequests
    BY <2>5, UntouchedStep
       DEF InitAnswered, InitFails, Cancel, CountdownEnds, Remount, PollStatus, LeftPoll,
           registryVars
  <2>6. ASSUME Unpair PROVE OldRequests
    BY <2>6, UnpairStep, UntouchedStep DEF registryVars
  <2>7. ASSUME NEW q \in polls, PollServed(q) PROVE OldRequests
    BY <2>7, PollServedStep
  <2>8. ASSUME NEW q \in polls, PollFails(q) \/ PollStored(q) PROVE OldRequests
    BY <2>8, UntouchedStep DEF PollFails, pageVars, PollStored, registryVars
  <2>9. ASSUME NEW p \in Phone,
               Scan(p) \/ PairRefused(p) \/ PhonePaired(p) \/ PushServed(p) \/ PushFails(p)
                 \/ PhoneUnpairs(p) \/ PairFails(p)
        PROVE  OldRequests
    <3>1. UNCHANGED request
      BY <2>9 DEF Scan, PairRefused, PhonePaired, PushServed, PushFails, PhoneUnpairs,
                  PairFails, SigningLost, SetPushToken, DeletePushToken, registryVars
    <3> QED BY <3>1, UntouchedStep
  <2>10. ASSUME NEW p \in Phone, PairServed(p) \/ PairSigned(p) PROVE OldRequests
    BY <2>10, PairServedStep, PairSignedStep
  <2>11. ASSUME UNCHANGED vars PROVE OldRequests
    BY <2>11, UntouchedStep DEF vars, registryVars
  <2> QED
    BY <2>1, <2>2, <2>3, <2>4, <2>5, <2>6, <2>7, <2>8, <2>9, <2>10, <2>11 DEF Next
<1>m. ASSUME NEW t \in Token, NewRequest(t) PROVE pair[request'[t].device] = None
  <2>1. secret \in Desk /\ Unclaimed(secret) /\ request'[t].device = secret
    BY <1>0, <1>m DEF NewRequest, DeskInv, Unclaimed
  <2> QED BY <1>0, <2>1 DEF PairInv
<1>b. ASSUME UNCHANGED pair,
             \A q \in Phone : (phone[q] = "idle" \/ Pending(q))' => phone[q] = "idle" \/ Pending(q)
      PROVE  PairInv'
  <2>1. \A t \in Token : Issued(t)' /\ ~ request'[t].used => pair'[request'[t].device] = None
    BY <1>0, <1>a, <1>b, <1>m, <1>n DEF PairInv, SameDevices
  <2>2. \A d \in Desk : Unclaimed(d)' => pair'[d] = None
    BY <1>0, <1>a, <1>b DEF PairInv
  <2>3. \A q \in Phone : (phone[q] = "idle" \/ Pending(q))' => pair'[q] = None
    BY <1>0, <1>b DEF PairInv
  <2>4. \A d, e \in Id : pair'[d] # None /\ e \in {pair'[d][1], pair'[d][2]} => pair'[e] = pair'[d]
    BY <1>0, <1>b DEF PairInv
  <2> QED BY <2>1, <2>2, <2>3, <2>4 DEF PairInv
<1>1. CASE ClaimsSame
  BY <1>b, <1>1 DEF ClaimsSame
<1>2. ASSUME NEW p \in Phone, PairSigned(p) PROVE PairInv'
  BY <1>b, <1>2, SignedClaims
<1>3. ASSUME NEW p \in Phone, PairServed(p) PROVE PairInv'
  <2> DEFINE t == scanned[p]
             d == request[t].device
  <2>1. /\ t \in Token /\ Issued(t) /\ ~ request[t].used /\ Pending(p)
        /\ d \in Desk /\ request'[t].used
        /\ pair'[p] = <<d, p>> /\ pair'[d] = <<d, p>>
        /\ \A e \in Id \ {p, d} : pair'[e] = pair[e]
        /\ signing' = signing \cup {<<t, p>>}
        /\ UNCHANGED <<phone, scanned>>
        /\ OldRequests
    BY <1>3, PairServedStep
  <2>2. pair[p] = None /\ pair[d] = None /\ p \in Id /\ d \in Id /\ p # d
    BY <1>0, <2>1 DEF PairInv
  <2>3. pair \in [Id -> (Id \X Id) \cup {None}]
    BY <1>0 DEF TypeOK, RegistryTypeOK
  <2>4. ASSUME NEW c \in Id, NEW e \in Id, pair'[c] # None, e \in {pair'[c][1], pair'[c][2]}
        PROVE  pair'[e] = pair'[c]
    <3>1. CASE c \in {p, d}
      BY <2>1, <2>4, <3>1
    <3>2. CASE c \notin {p, d}
      <4>1. pair'[c] = pair[c]
        BY <2>1, <3>2
      <4>2. pair[e] = pair[c]
        BY <1>0, <2>4, <4>1 DEF PairInv
      <4>3. e \notin {p, d}
        BY <2>2, <2>4, <4>1, <4>2
      <4> QED BY <2>1, <4>1, <4>2, <4>3
    <3> QED BY <3>1, <3>2
  <2>5. ASSUME NEW c \in Desk, Unclaimed(c)' PROVE pair'[c] = None
    <3>1. Unclaimed(c) /\ pair[c] = None
      BY <1>0, <1>a, <2>5 DEF PairInv
    <3>2. c # d /\ c # p
      BY <1>0, <2>1, <3>1 DEF RequestInv
    <3> QED BY <2>1, <3>1, <3>2
  <2>6. ASSUME NEW u \in Token, Issued(u)', ~ request'[u].used
        PROVE  pair'[request'[u].device] = None
    <3>1. u # t /\ Issued(u) /\ request'[u].device = request[u].device /\ ~ request[u].used
      BY <2>1, <2>6 DEF OldRequests, SameDevices
    <3>2. request[u].device # d /\ request[u].device \in Desk
      BY <1>0, <2>1, <3>1 DEF RequestInv
    <3>3. pair[request[u].device] = None
      BY <1>0, <3>1 DEF PairInv
    <3> QED BY <2>1, <3>1, <3>2, <3>3
  <2>7. ASSUME NEW q \in Phone, (phone[q] = "idle" \/ Pending(q))' PROVE pair'[q] = None
    <3>1. phone[q] = "idle" \/ Pending(q)
      BY <2>1, <2>7 DEF Pending
    <3>2. q # p
      BY <2>1, <2>7 DEF Pending
    <3>3. q # d /\ pair[q] = None
      BY <1>0, <2>1, <3>1 DEF PairInv
    <3> QED BY <2>1, <3>2, <3>3
  <2> QED BY <2>4, <2>5, <2>6, <2>7 DEF PairInv
<1> QED BY <1>1, <1>2, <1>3, ClaimsSameStep

-----------------------------------------------------------------------------
(* The results: only a signature names a phone anew.                       *)
ResultsSame ==
  /\ PollsSame
  /\ \A t \in Token : Issued(t)' => \/ Issued(t) /\ request'[t].result = request[t].result
                                    \/ NewRequest(t)

LEMMA ResultsSameStep ==
  ASSUME PairingInv, [Next]_vars
  PROVE  \/ ResultsSame
         \/ Remount \/ Unpair
         \/ \E q \in polls : PollServed(q) \/ PollStored(q)
         \/ \E p \in Phone : PairSigned(p)
<1> DEFINE Same == \A t \in Token : Issued(t)' => \/ Issued(t) /\ request'[t].result = request[t].result
                                                  \/ NewRequest(t)
<1>a. ASSUME UNCHANGED request PROVE Same
  BY <1>a DEF Issued
<1>1. ASSUME NEW d \in Desk, StartPairing(d) PROVE Same
  BY <1>1, <1>a DEF StartPairing, registryVars
<1>2. ASSUME NEW t \in Token, InitServed(t) PROVE Same
  BY <1>2, InitServedStep DEF NewRequest, Issued
<1>3. ASSUME NEW t \in Token, ExpireRequest(t) PROVE Same
  BY <1>3, ExpireStep DEF OldRequests
<1>4. ASSUME InitAnswered \/ InitFails \/ Cancel \/ CountdownEnds \/ PollStatus
             \/ \E t \in left : LeftPoll(t)
      PROVE  Same
  BY <1>4, <1>a DEF InitAnswered, InitFails, Cancel, CountdownEnds, PollStatus, LeftPoll,
                  registryVars
<1>5. ASSUME NEW q \in polls, PollFails(q) PROVE Same
  BY <1>5, <1>a DEF PollFails, pageVars, registryVars
<1>6. ASSUME NEW p \in Phone,
             Scan(p) \/ PairRefused(p) \/ PhonePaired(p) \/ PushServed(p) \/ PushFails(p)
               \/ PhoneUnpairs(p) \/ PairFails(p)
      PROVE  Same
  <2>1. UNCHANGED request
    BY <1>6 DEF Scan, PairRefused, PhonePaired, PushServed, PushFails, PhoneUnpairs,
                PairFails, SigningLost, SetPushToken, DeletePushToken, registryVars
  <2> QED BY <2>1, <1>a
<1>7. ASSUME NEW p \in Phone, PairServed(p) PROVE Same
  <2> DEFINE t == scanned[p]
  <2>1. /\ t \in Token /\ request'[t].result = request[t].result
        /\ \A u \in Token \ {t} : request'[u] = request[u]
        /\ OldRequests
    BY <1>7, PairServedStep
  <2> QED BY <2>1 DEF OldRequests
<1>8. ASSUME UNCHANGED vars PROVE Same
  BY <1>8, <1>a DEF vars, registryVars
<1> HIDE DEF Same
<1>9. \/ Same
      \/ Remount \/ Unpair
      \/ \E q \in polls : PollServed(q) \/ PollStored(q)
      \/ \E p \in Phone : PairSigned(p)
  BY <1>1, <1>2, <1>3, <1>4, <1>5, <1>6, <1>7, <1>8 DEF Next
<1>10. (\E p \in Phone : PairSigned(p)) \/ PollsSame \/ Remount \/ Unpair
       \/ \E q \in polls : PollServed(q) \/ PollStored(q)
  BY PollsSameStep
<1> QED BY <1>9, <1>10 DEF ResultsSame, Same

(* What is named was named before, unless a phone's completion is signed.  *)
LEMMA NamedSame ==
  ASSUME PairingInv, [Next]_vars, ~ \E p \in Phone : PairSigned(p),
         NEW t \in Token, NEW x \in Phone, Named(t, x)'
  PROVE  Named(t, x)
<1>0. TypeOK /\ DeskInv /\ RequestInv /\ AnswerInv
  BY DEF PairingInv
<1> USE Assumptions DEF Assumed
<1>a. SameDevices
  BY Monotone
<1>b. \A q \in polls : q.token \in Token
  BY <1>0 DEF TypeOK, Poll
<1>c. x # None
  BY DEF Assumed
<1>d. jwt # None => jwt[1] \in Desk /\ jwt = <<jwt[1], jwt[2]>> /\ ~ Unclaimed(jwt[1])
  BY <1>0 DEF TypeOK, AnswerInv
<1>1. CASE ResultsSame
  <2>1. ASSUME InRegistry(t, x)' PROVE Named(t, x)
    BY <2>1, <1>1, <1>c DEF ResultsSame, InRegistry, Named, NewRequest
  <2>2. ASSUME InAnswer(t, x)' PROVE Named(t, x)
    BY <2>2, <1>1, <1>c DEF ResultsSame, PollsSame, InAnswer, Named
  <2>3. ASSUME InDesktop(t, x)' PROVE Named(t, x)
    <3>1. jwt = <<request'[t].device, x>> /\ Issued(t)'
      BY <2>3, <1>1 DEF ResultsSame, PollsSame, InDesktop
    <3>3. Issued(t)
      <4>1. CASE NewRequest(t)
        <5>1. request'[t].device = secret /\ secret \in Desk /\ Unclaimed(secret)
          BY <1>0, <4>1 DEF NewRequest, DeskInv, Unclaimed
        <5>2. jwt \in Id \X Id /\ jwt[1] = secret
          BY <3>1, <5>1
        <5> QED BY <1>d, <5>1, <5>2
      <4> QED BY <4>1, <3>1, <1>1 DEF ResultsSame
    <3> QED BY <3>1, <3>3, <1>a DEF SameDevices, Named, InDesktop
  <2> QED BY <2>1, <2>2, <2>3 DEF Named
<1>2. CASE Remount
  <2>1. /\ \A r \in polls' : \E q \in polls : r.token = q.token /\ r.answer = q.answer
        /\ UNCHANGED <<request, jwt>>
    BY <1>2, RemountAnswers DEF registryVars
  <2> QED BY <2>1 DEF Named, InRegistry, InAnswer, InDesktop, Issued
<1>3. CASE Unpair
  <2>1. UNCHANGED <<request, polls>> /\ jwt' = None
    BY <1>3, UnpairStep DEF registryVars
  <2>2. ASSUME InDesktop(t, x)' PROVE FALSE
    <3>1. None = <<request[t].device, x>> /\ Issued(t)
      BY <2>1, <2>2 DEF InDesktop, Issued
    <3>2. request[t].device \in Id /\ x \in Id
      BY <3>1, <1>0 DEF RequestInv
    <3> QED BY <3>1, <3>2
  <2> QED BY <2>1, <2>2 DEF Named, InRegistry, InAnswer, Issued
<1>4. ASSUME NEW q \in polls, PollServed(q) PROVE Named(t, x)
  <2> DEFINE y == StatusResult(q.token)
             r == [q EXCEPT !.answer = y]
  <2>1. /\ UNCHANGED jwt /\ OldRequests /\ q.token \in Token
        /\ Issued(q.token) => request'[q.token].result = None
        /\ \A u \in Token \ {q.token} : request'[u] = request[u]
        /\ y = None => polls' = polls \ {q}
        /\ y # None => /\ polls' = (polls \ {q}) \cup {r} /\ Issued(q.token)
                       /\ request[q.token].result = y
        /\ r.token = q.token /\ r.answer = y
    BY <1>4, PollServedStep
  <2> HIDE DEF y, r
  <2>2. ASSUME InRegistry(t, x)' PROVE Named(t, x)
    BY <2>1, <2>2, <1>c DEF InRegistry, Named, OldRequests
  <2>3. ASSUME InAnswer(t, x)' PROVE Named(t, x)
    <3>1. PICK s \in polls' : s.token = t /\ s.answer = x
      BY <2>3 DEF InAnswer
    <3>2. s \in polls \/ (s = r /\ y # None)
      BY <2>1, <3>1
    <3> QED BY <2>1, <3>1, <3>2 DEF Named, InAnswer, InRegistry
  <2>4. ASSUME InDesktop(t, x)' PROVE Named(t, x)
    BY <2>1, <2>4 DEF InDesktop, Named, OldRequests, SameDevices
  <2> QED BY <2>2, <2>3, <2>4 DEF Named
<1>5. ASSUME NEW q \in polls, PollStored(q) PROVE Named(t, x)
  <2>1. /\ polls' = polls \ {q} /\ q.answer # None
        /\ jwt' = <<request[q.token].device, q.answer>>
        /\ UNCHANGED request
    BY <1>5 DEF PollStored, registryVars
  <2>2. Issued(q.token) /\ q.token \in Token
    BY <1>0, <1>b, <2>1 DEF AnswerInv
  <2>3. ASSUME InDesktop(t, x)' PROVE Named(t, x)
    <3>1. request[t].device = request[q.token].device /\ x = q.answer /\ Issued(t)
      BY <2>1, <2>3 DEF InDesktop, Issued
    <3>2. t = q.token
      BY <1>0, <2>2, <3>1 DEF RequestInv
    <3> QED BY <3>1, <3>2 DEF Named, InAnswer
  <2> QED BY <2>1, <2>3 DEF Named, InRegistry, InAnswer, Issued
<1> QED BY <1>1, <1>2, <1>3, <1>4, <1>5, ResultsSameStep

LEMMA NamedStep == PairingInv /\ [Next]_vars => NamedInv'
<1> SUFFICES ASSUME PairingInv, [Next]_vars PROVE NamedInv'
  OBVIOUS
<1>0. TypeOK /\ ScanInv /\ ClaimInv /\ NamedInv
  BY DEF PairingInv
<1> USE Assumptions DEF Assumed
<1>a. SameDevices
  BY Monotone
<1> SUFFICES ASSUME NEW t \in Token, NEW x \in Phone, Named(t, x)'
             PROVE  /\ Issued(t)' /\ request'[t].used
                    /\ \A p \in Phone : <<t, p>> \notin signing' /\ (Holds(p, t)' => p = x)
  BY DEF NamedInv
<1>1. ASSUME NEW p \in Phone, PairSigned(p), t = scanned[p]
      PROVE  /\ Issued(t)' /\ request'[t].used
             /\ \A q \in Phone : <<t, q>> \notin signing' /\ (Holds(q, t)' => q = x)
  <2>1. /\ Issued(t) /\ <<t, p>> \in signing
        /\ request'[t].used /\ request'[t].result = p
        /\ signing' = signing \ {<<t, p>>}
        /\ UNCHANGED <<polls, jwt>>
    BY <1>1, PairSignedStep DEF desktopVars, pageVars
  <2>2. ~ Named(t, x)
    BY <1>0, <2>1 DEF NamedInv
  <2>3. Issued(t)' /\ request'[t].device = request[t].device
    BY <1>a, <2>1 DEF SameDevices
  <2>4. x = p
    BY <2>1, <2>2, <2>3 DEF Named, InRegistry, InAnswer, InDesktop
  <2>5. Claims(p, t) /\ \A q \in Phone : Claims(q, t) => q = p
    BY <1>0, <2>1 DEF Claims, ClaimInv
  <2>6. \A q \in Phone : <<t, q>> \notin signing'
    BY <2>1, <2>5 DEF Claims
  <2>7. \A q \in Phone : Holds(q, t)' => q = p
    BY <1>1, <2>5, SignedClaims DEF Claims
  <2> QED BY <2>1, <2>3, <2>4, <2>6, <2>7
<1>2. ASSUME NEW p \in Phone, PairSigned(p), t # scanned[p] PROVE Named(t, x)
  <2>1. /\ \A u \in Token \ {scanned[p]} : request'[u] = request[u]
        /\ UNCHANGED <<polls, jwt>>
    BY <1>2, PairSignedStep DEF desktopVars, pageVars
  <2>2. request'[t] = request[t]
    BY <1>2, <2>1
  <2> QED BY <2>1, <2>2 DEF Named, InRegistry, InAnswer, InDesktop, Issued
<1>3. CASE Named(t, x)
  <2>1. /\ Issued(t) /\ request[t].used
        /\ \A p \in Phone : <<t, p>> \notin signing /\ (Holds(p, t) => p = x)
    BY <1>0, <1>3 DEF NamedInv
  <2>2. Issued(t)' /\ request'[t].used
    BY <1>a, <2>1 DEF SameDevices
  <2>3. CASE ClaimsSame
    BY <2>1, <2>2, <2>3 DEF ClaimsSame
  <2>4. ASSUME NEW p \in Phone, PairSigned(p)
        PROVE  \A q \in Phone : <<t, q>> \notin signing' /\ (Holds(q, t)' => q = x)
    <3>1. /\ <<scanned[p], p>> \in signing /\ signing' = signing \ {<<scanned[p], p>>}
      BY <2>4, PairSignedStep
    <3>2. t # scanned[p]
      BY <2>1, <3>1
    <3>3. \A q \in Phone : Holds(q, t)' => Holds(q, t)
      BY <2>4, <3>2, SignedClaims
    <3> QED BY <2>1, <3>1, <3>3
  <2>5. ASSUME NEW p \in Phone, PairServed(p)
        PROVE  \A q \in Phone : <<t, q>> \notin signing' /\ (Holds(q, t)' => q = x)
    <3>1. /\ ~ request[scanned[p]].used /\ signing' = signing \cup {<<scanned[p], p>>}
          /\ UNCHANGED <<phone, scanned>>
      BY <2>5, PairServedStep
    <3>2. t # scanned[p]
      BY <2>1, <3>1
    <3> QED BY <2>1, <3>1, <3>2 DEF Holds
  <2> QED BY <2>2, <2>3, <2>4, <2>5, ClaimsSameStep
<1> QED BY <1>1, <1>2, <1>3, NamedSame

-----------------------------------------------------------------------------
(* Where the one result of a code is.                                      *)
HandedOutOnceAt(t) ==
  /\ \A q, r \in Answers(t) : q = r
  /\ Answers(t) # {} => StatusResult(t) = None
  /\ Issued(t) /\ jwt # None /\ jwt[1] = request[t].device =>
       StatusResult(t) = None /\ Answers(t) = {}

LEMMA HandedOutStep == PairingInv /\ [Next]_vars => HandedOutOnce'
<1> SUFFICES ASSUME PairingInv, [Next]_vars PROVE HandedOutOnce'
  OBVIOUS
<1>0. TypeOK /\ DeskInv /\ RequestInv /\ AnswerInv /\ ClaimInv /\ NamedInv
  BY DEF PairingInv
<1> USE Assumptions DEF Assumed
<1> SUFFICES ASSUME NEW t \in Token PROVE HandedOutOnceAt(t)'
  BY DEF HandedOutOnce, HandedOutOnceAt
<1>h. HandedOutOnceAt(t)
  BY DEF PairingInv, HandedOutOnce, HandedOutOnceAt
<1>a. SameDevices
  BY Monotone
<1>b. \A q \in polls : q.token \in Token
  BY <1>0 DEF TypeOK, Poll
<1>c. Answers(t) # {} => Issued(t)
  BY <1>0 DEF AnswerInv, Answers
<1>d. jwt # None => jwt[1] \in Desk /\ jwt[2] \in Phone /\ jwt = <<jwt[1], jwt[2]>>
                    /\ ~ Unclaimed(jwt[1])
  BY <1>0 DEF TypeOK, AnswerInv
<1>1. CASE ResultsSame
  <2>1. Answers(t)' \subseteq Answers(t) /\ UNCHANGED jwt
    BY <1>1 DEF ResultsSame, PollsSame, Answers
  <2>2. CASE NewRequest(t)
    <3>1. /\ ~ Issued(t) /\ request'[t].device = secret /\ request'[t].result = None
          /\ Unclaimed(secret)
      BY <2>2 DEF NewRequest, Unclaimed
    <3>2. Answers(t)' = {}
      BY <1>c, <2>1, <3>1
    <3>3. StatusResult(t)' = None
      BY <3>1 DEF StatusResult
    <3> QED BY <3>2, <3>3 DEF HandedOutOnceAt
  <2>3. CASE Issued(t)' /\ Issued(t) /\ request'[t].result = request[t].result
    <3>1. StatusResult(t)' = StatusResult(t) /\ request'[t].device = request[t].device
      BY <1>a, <2>3 DEF StatusResult, SameDevices
    <3> QED BY <1>h, <2>1, <2>3, <3>1 DEF HandedOutOnceAt
  <2>4. CASE ~ Issued(t)'
    <3>1. ~ Issued(t) /\ Answers(t)' = {} /\ StatusResult(t)' = None
      BY <1>a, <1>c, <2>1, <2>4 DEF SameDevices, StatusResult
    <3> QED BY <2>4, <3>1 DEF HandedOutOnceAt
  <2> QED BY <1>1, <2>2, <2>3, <2>4 DEF ResultsSame
<1>2. CASE Remount
  <2>1. /\ \A r \in polls' : \E q \in polls :
              r = [q EXCEPT !.mounted = FALSE] /\ r.token = q.token /\ r.answer = q.answer
        /\ UNCHANGED <<request, jwt>>
    BY <1>2, RemountAnswers DEF registryVars
  <2>2. ASSUME NEW r \in Answers(t)', NEW s \in Answers(t)' PROVE r = s
    <3>1. PICK q \in polls : r = [q EXCEPT !.mounted = FALSE] /\ r.token = q.token /\ r.answer = q.answer
      BY <2>1, <2>2 DEF Answers
    <3>2. PICK v \in polls : s = [v EXCEPT !.mounted = FALSE] /\ s.token = v.token /\ s.answer = v.answer
      BY <2>1, <2>2 DEF Answers
    <3>3. q \in Answers(t) /\ v \in Answers(t)
      BY <2>2, <3>1, <3>2 DEF Answers
    <3>4. q = v
      BY <1>h, <3>3 DEF HandedOutOnceAt
    <3> QED BY <3>1, <3>2, <3>4
  <2>3. Answers(t)' # {} => Answers(t) # {}
    BY <2>1 DEF Answers
  <2>4. StatusResult(t)' = StatusResult(t) /\ (Issued(t)' <=> Issued(t))
    BY <2>1 DEF StatusResult, Issued
  <2> QED BY <1>h, <2>1, <2>2, <2>3, <2>4 DEF HandedOutOnceAt
<1>3. CASE Unpair
  <2>1. UNCHANGED <<request, polls>> /\ jwt' = None
    BY <1>3, UnpairStep DEF registryVars
  <2> QED BY <1>h, <2>1 DEF HandedOutOnceAt, Answers, StatusResult, Issued
<1>4. ASSUME NEW q \in polls, PollServed(q) PROVE HandedOutOnceAt(t)'
  <2> DEFINE y == StatusResult(q.token)
             r == [q EXCEPT !.answer = y]
  <2>1. /\ UNCHANGED jwt /\ OldRequests /\ q.token \in Token /\ q.answer = None
        /\ Issued(q.token) => request'[q.token].result = None
        /\ \A u \in Token \ {q.token} : request'[u] = request[u]
        /\ y = None => polls' = polls \ {q}
        /\ y # None => polls' = (polls \ {q}) \cup {r} /\ Issued(q.token)
        /\ r.token = q.token /\ r.answer = y
    BY <1>4, PollServedStep
  <2> HIDE DEF r
  <2>2. CASE y = None \/ q.token # t
    <3>1. Answers(t)' \subseteq Answers(t)
      BY <2>1, <2>2 DEF Answers
    <3>2. StatusResult(t)' = StatusResult(t) \/ StatusResult(t)' = None
      BY <2>1 DEF StatusResult, OldRequests, Issued
    <3> QED BY <1>h, <1>a, <2>1, <3>1, <3>2 DEF HandedOutOnceAt, OldRequests, SameDevices
  <2>3. CASE y # None /\ q.token = t
    <3>1. Answers(t) = {} /\ ~ (jwt # None /\ jwt[1] = request[t].device)
      BY <1>h, <2>1, <2>3 DEF HandedOutOnceAt
    <3>2. Answers(t)' \subseteq {r}
      BY <2>1, <2>3, <3>1 DEF Answers
    <3>3. StatusResult(t)' = None
      BY <2>1, <2>3 DEF StatusResult
    <3>4. request'[t].device = request[t].device
      BY <1>a, <2>1, <2>3 DEF SameDevices
    <3> QED BY <2>1, <3>1, <3>2, <3>3, <3>4 DEF HandedOutOnceAt
  <2> QED BY <2>2, <2>3
<1>5. ASSUME NEW q \in polls, PollStored(q) PROVE HandedOutOnceAt(t)'
  <2>1. /\ polls' = polls \ {q} /\ q.answer # None
        /\ jwt' = <<request[q.token].device, q.answer>>
        /\ UNCHANGED request
    BY <1>5 DEF PollStored, registryVars
  <2>2. Issued(q.token) /\ q.token \in Token
    BY <1>0, <1>b, <2>1 DEF AnswerInv
  <2>3. Answers(t)' = Answers(t) \ {q} /\ StatusResult(t)' = StatusResult(t)
    BY <2>1 DEF Answers, StatusResult, Issued
  <2>4. ASSUME Issued(t), request[t].device = request[q.token].device
        PROVE  StatusResult(t) = None /\ Answers(t) \subseteq {q}
    <3>1. t = q.token
      BY <1>0, <2>2, <2>4 DEF RequestInv
    <3>2. q \in Answers(t)
      BY <2>1, <3>1 DEF Answers
    <3> QED BY <1>h, <3>2 DEF HandedOutOnceAt
  <2> QED BY <1>h, <2>1, <2>3, <2>4 DEF HandedOutOnceAt, Issued
<1>6. ASSUME NEW p \in Phone, PairSigned(p) PROVE HandedOutOnceAt(t)'
  <2>1. /\ Issued(scanned[p]) /\ <<scanned[p], p>> \in signing
        /\ \A u \in Token \ {scanned[p]} : request'[u] = request[u]
        /\ UNCHANGED <<polls, jwt>>
    BY <1>6, PairSignedStep DEF desktopVars, pageVars
  <2>2. CASE t # scanned[p]
    <3>1. request'[t] = request[t]
      BY <2>1, <2>2
    <3>2. Answers(t)' = Answers(t) /\ StatusResult(t)' = StatusResult(t) /\ (Issued(t)' <=> Issued(t))
      BY <2>1, <3>1 DEF Answers, StatusResult, Issued
    <3> QED BY <1>h, <2>1, <3>1, <3>2 DEF HandedOutOnceAt
  <2>3. CASE t = scanned[p]
    <3>1. \A x \in Phone : ~ Named(t, x)
      BY <1>0, <2>1, <2>3 DEF NamedInv
    <3>2. Answers(t)' = {}
      BY <1>0, <2>1, <3>1 DEF Answers, AnswerInv, Named, InAnswer
    <3>3. ~ (jwt' # None /\ jwt'[1] = request'[t].device)
      BY <1>a, <1>d, <2>1, <2>3, <3>1 DEF SameDevices, Named, InDesktop
    <3> QED BY <3>2, <3>3 DEF HandedOutOnceAt
  <2> QED BY <2>2, <2>3
<1> QED BY <1>1, <1>2, <1>3, <1>4, <1>5, <1>6, ResultsSameStep

-----------------------------------------------------------------------------
(* The theorems.                                                           *)
LEMMA PairingStep == PairingInv /\ [Next]_vars => PairingInv'
BY TypeStep, DeskStep, RequestStep, AnswerStep, ScanStep, ClaimStep, NamedStep, PairStep,
   HandedOutStep DEF PairingInv

LEMMA PairingInvariant == Spec => []PairingInv
<1>1. Init => PairingInv
  BY PairingInit
<1>2. PairingInv /\ [Next]_vars => PairingInv'
  BY PairingStep
<1> QED BY <1>1, <1>2, PTL DEF Spec

(* The registry, the stored pairing, the page and the phones keep their    *)
(* types, and a page that shows a code has one.                            *)
THEOREM TypeCorrect == Spec => []TypeOK
<1>1. PairingInv => TypeOK
  BY DEF PairingInv
<1> QED BY <1>1, PairingInvariant, PTL

(* However many phones scan a code at once, one gets a JWT, and it is the  *)
(* one the desktop's JWT names.                                            *)
THEOREM NoRivalCorrect == Spec => []NoRival
<1>1. ASSUME PairingInv PROVE NoRival
  <2>0. TypeOK /\ ClaimInv /\ NamedInv
    BY <1>1 DEF PairingInv
  <2>1. SUFFICES ASSUME NEW p \in Phone, NEW t \in Token, Holds(p, t)
                 PROVE  /\ \A q \in Phone : Holds(q, t) => q = p
                        /\ jwt # None /\ jwt[1] = request[t].device => jwt[2] = p
    BY DEF NoRival
  <2>2. Issued(t) /\ \A q \in Phone : Holds(q, t) => q = p
    BY <2>0, <2>1 DEF ClaimInv, Claims
  <2>3. ASSUME jwt # None, jwt[1] = request[t].device PROVE jwt[2] = p
    <3>1. jwt[2] \in Phone /\ jwt = <<request[t].device, jwt[2]>>
      BY <2>0, <2>3 DEF TypeOK
    <3>2. Named(t, jwt[2])
      BY <2>2, <3>1 DEF Named, InDesktop
    <3> QED BY <2>0, <2>1, <3>1, <3>2 DEF NamedInv
  <2> QED BY <2>2, <2>3
<1> QED BY <1>1, PairingInvariant, PTL

(* The two ends of a pair agree on it, and a phone with a JWT is in the    *)
(* pair of the id its JWT names.                                           *)
THEOREM PairIsMutualCorrect == Spec => []PairIsMutual
<1>1. PairingInv => PairIsMutual
  BY DEF PairingInv, PairInv, ClaimInv, Claims, PairIsMutual
<1> QED BY <1>1, PairingInvariant, PTL

(* The result of a code is in one place, however polls overlap.            *)
THEOREM HandedOutOnceCorrect == Spec => []HandedOutOnce
<1>1. PairingInv => HandedOutOnce
  BY DEF PairingInv
<1> QED BY <1>1, PairingInvariant, PTL

(* What the desktop stores belongs together, unless the answer was         *)
(* overtaken.                                                              *)
THEOREM StoredTogetherCorrect == Spec => StoredTogether
<1> DEFINE Together ==
      \A q \in polls :
        /\ json' # json /\ q \notin polls' /\ q.answer # None
        /\ ui = "qr" /\ q.token = shown
        => json'.device = jwt'[1] /\ json'.partner = jwt'[2]
<1>1. PairingInv /\ [Next]_vars => [Together]_vars
  <2> SUFFICES ASSUME PairingInv, [Next]_vars, NEW q \in polls,
                      json' # json, q \notin polls', q.answer # None, ui = "qr", q.token = shown
               PROVE  json'.device = jwt'[1] /\ json'.partner = jwt'[2]
    OBVIOUS
  <2>1. \A d \in Desk : ~ StartPairing(d)
    BY DEF StartPairing
  <2>2. ~ Unpair
    BY DEF Unpair
  <2>3. PICK r \in polls : PollStored(r)
    BY <2>1, <2>2
       DEF Next, InitServed, ExpireRequest, InitAnswered, InitFails, Cancel, Remount,
           CountdownEnds, PollStatus, LeftPoll, PollServed, PollFails, Scan, PairServed, PairRefused,
           PairSigned, PairFails, PhonePaired, PushServed, PushFails, PhoneUnpairs,
           desktopVars, pageVars, vars
  <2>4. /\ polls' = polls \ {r}
        /\ jwt' = <<request[r.token].device, r.answer>>
        /\ json' = [device |-> secret, partner |-> r.answer]
    BY <2>3 DEF PollStored
  <2>5. r = q
    BY <2>4
  <2>6. request[q.token].device = secret
    BY DEF PairingInv, DeskInv
  <2> QED BY <2>4, <2>5, <2>6
<1> QED BY <1>1, PairingInvariant, PTL DEF Spec, StoredTogether
=============================================================================
