------------------------------ MODULE AuthProofs ------------------------------
(***************************************************************************)
(* Proofs about Auth for every set of devices, tokens and requests and any *)
(* number of faults.                                                       *)
(*                                                                         *)
(* A token belongs to a device from the moment it is answered, before the  *)
(* device holds it, so what is said of held tokens is said of all given    *)
(* ones (TokensOK).  A request acts for the device that sent it, although  *)
(* Refresh takes the device from the store (RequestsOK).  A given token    *)
(* that some request has presented is used, which is why the rotation of   *)
(* one request cannot kill a token another one was just given.             *)
(***************************************************************************)
EXTENDS Auth, TLAPS

\* The store accepts the token, if at all, as the device's.
Belongs(t, d) == t \in live => tokens[t] = d

\* The first time the token is presented the store has it.
Works(t) == t # None /\ t \notin used => t \in live

TokensOK ==
    /\ \A t \in live : tokens[t] \in Keyed
    /\ \A d \in Dev : Belongs(hold[d], d)
    /\ \A q \in Req : Belongs(new[q], Owner[q])
    /\ \A t \in Given : Works(t)
    /\ \A q \in Req : tok[q] # None /\ tok[q] \in Given => tok[q] \in used

RequestOK(q) ==
    /\ dev[q] = Owner[q]
    /\ pc[q] \in {"create", "save", "device", "drop", "revoke"} \/ new[q] # None =>
         Owner[q] \in Keyed
    /\ pc[q] = "create" => tok[q] = None
    /\ pc[q] = "save" \/ new[q] # None => tok[q] \notin live

DevicesOK == devices \cup access \subseteq Keyed

Inv ==
    /\ TypeOK
    /\ used \subseteq Token
    /\ TokensOK
    /\ \A q \in Req : RequestOK(q)
    /\ DevicesOK

-----------------------------------------------------------------------------
(* How a request moves on *)

Place == {"idle", "create", "save", "device", "drop", "revoke", "me", "answered"}
Status == {0, 200, 401, 404, 409, 500}

\* A request on its way has been given no token yet, so an answer without one
\* leaves the given tokens as they are.
Quiet(q) ==
    /\ new' = new
    /\ pc' = [pc EXCEPT ![q] = pc'[q]] /\ pc'[q] \in Place
    /\ code' \in [Req -> Status]
    /\ \A p \in Req : new[p] # None => pc'[p] = "answered" /\ code'[p] = 200

LEMMA GotoQuiet ==
    ASSUME TypeOK, NEW q \in Req, pc[q] # "answered", NEW place \in Place, Goto(q, place)
    PROVE  Quiet(q) /\ pc'[q] = place
  BY DEF TypeOK, Goto, Quiet, Place, Status

LEMMA RespondQuiet ==
    ASSUME TypeOK, NEW q \in Req, pc[q] # "answered", NEW c \in Status, Respond(q, c, None)
    PROVE  Quiet(q) /\ pc'[q] = "answered"
<1>1. new[q] = None /\ new' = new
  BY DEF TypeOK, Respond
<1>2. pc' = [pc EXCEPT ![q] = pc'[q]] /\ pc'[q] = "answered"
  BY DEF TypeOK, Respond
<1>3. code' \in [Req -> Status] /\ \A p \in Req \ {q} : code'[p] = code[p] /\ pc'[p] = pc[p]
  BY DEF TypeOK, Respond, Status
<1>4. \A p \in Req : new[p] # None => pc'[p] = "answered" /\ code'[p] = 200
  BY <1>1, <1>3 DEF TypeOK
<1> QED BY <1>1, <1>2, <1>3, <1>4 DEF Quiet, Place

LEMMA CallType ==
    ASSUME TypeOK, NEW err \in BOOLEAN, Call(err)
    PROVE  faults' \in 0..MaxFaults
<1>1. MaxFaults \in Nat /\ faults \in 0..MaxFaults
  BY AuthAssumption DEF TypeOK
<1>2. CASE err
  BY <1>1, <1>2 DEF Call
<1>3. CASE ~err
  BY <1>1, <1>3 DEF Call
<1> QED BY <1>2, <1>3

LEMMA GivenSame ==
    ASSUME UNCHANGED <<hold, new>>
    PROVE  Given' = Given
  BY DEF Given

\* A new token is one that nobody knows.
LEMMA NewTokenIsNew ==
    ASSUME \E s \in Token : s \notin Referenced
    PROVE  newRefreshToken \in Token /\ newRefreshToken \notin Referenced
  BY DEF newRefreshToken

-----------------------------------------------------------------------------
(* Type correctness *)

\* A quiet move of a request, with what it may do to the stores.
LEMMA QuietType ==
    ASSUME TypeOK, NEW q \in Req, Quiet(q), UNCHANGED client,
           devices' \subseteq Dev, tokens' \in [Token -> Dev \cup {None}],
           dev' \in [Req -> Dev], tok' \in [Req -> Token \cup {None}],
           faults' \in 0..MaxFaults, used' \subseteq Given,
           \A p \in Req \ {q} : tok'[p] = tok[p],
           pc'[q] \in {"device", "drop", "revoke"} => tok'[q] # None
    PROVE  TypeOK'
<1>1. Given' = Given /\ UNCHANGED <<hold, access, new>>
  BY GivenSame DEF client, Quiet
<1>2. pc' \in [Req -> Place] /\ \A p \in Req \ {q} : pc'[p] = pc[p]
  <2>1. PICK x \in Place : x = pc'[q] /\ pc' = [pc EXCEPT ![q] = x]
    BY DEF Quiet
  <2> QED BY <2>1 DEF TypeOK, Place
<1>3. \A p \in Req : pc'[p] \in {"device", "drop", "revoke"} => tok'[p] # None
  BY <1>2 DEF TypeOK
<1> QED BY <1>1, <1>2, <1>3 DEF TypeOK, Quiet, Place, Status

LEMMA TypeStep == Inv /\ [Next]_avars => TypeOK' /\ used' \subseteq Token
<1> SUFFICES ASSUME Inv, [Next]_avars PROVE TypeOK' /\ used' \subseteq Token
  OBVIOUS
<1>0. TypeOK /\ used \subseteq Token /\ None \notin Token /\ Owner \in [Req -> Dev]
      /\ used \subseteq Given
  BY AuthAssumption DEF Inv, TypeOK
<1>1. CASE UNCHANGED avars
  BY <1>0, <1>1 DEF avars, store, request, client, TypeOK, Given
<1>2. ASSUME NEW q \in Req, NEW err \in BOOLEAN, Register(q, err) PROVE TypeOK' /\ used' \subseteq Token
  <2>1. /\ pc[q] = "idle" /\ tok' = [tok EXCEPT ![q] = None] /\ dev' = [dev EXCEPT ![q] = Owner[q]]
        /\ UNCHANGED <<devices, tokens, client, used>>
    BY <1>2 DEF Register, store
  <2>2. /\ tok' \in [Req -> Token \cup {None}] /\ dev' \in [Req -> Dev]
        /\ \A p \in Req \ {q} : tok'[p] = tok[p]
    BY <1>0, <2>1 DEF TypeOK
  <2>3. faults' \in 0..MaxFaults
    BY <1>0, <1>2, CallType DEF Register
  <2>4. Quiet(q) /\ pc'[q] \in {"answered", "create", "save"}
    <3>1. \/ Respond(q, 401, None) \/ Respond(q, 500, None)
          \/ Goto(q, "save") \/ Goto(q, "create")
      BY <1>2 DEF Register
    <3> QED BY <1>0, <2>1, <3>1, GotoQuiet, RespondQuiet DEF Place, Status
  <2>5. TypeOK'
    BY <1>0, <2>1, <2>2, <2>3, <2>4, QuietType DEF TypeOK
  <2> QED BY <1>0, <2>1, <2>5
<1>3. ASSUME NEW q \in Req, NEW err \in BOOLEAN, CreateDevice(q, err) PROVE TypeOK' /\ used' \subseteq Token
  <2>1. pc[q] = "create" /\ UNCHANGED <<tokens, dev, tok, client, used>> /\ devices' \subseteq Dev
    BY <1>0, <1>3 DEF CreateDevice, TypeOK
  <2>2. Quiet(q) /\ pc'[q] \in {"answered", "save"}
    BY <1>0, <1>3, <2>1, GotoQuiet, RespondQuiet DEF CreateDevice, Place, Status
  <2>3. faults' \in 0..MaxFaults
    BY <1>0, <1>3, CallType DEF CreateDevice
  <2>4. TypeOK'
    BY <1>0, <2>1, <2>2, <2>3, QuietType DEF TypeOK
  <2> QED BY <1>0, <2>1, <2>4
<1>4. ASSUME NEW q \in Req, NEW err \in BOOLEAN, SaveRefreshToken(q, err) PROVE TypeOK' /\ used' \subseteq Token
  <2> DEFINE t == newRefreshToken
  <2>1. /\ pc[q] = "save" /\ UNCHANGED <<devices, dev, tok, client, used>>
        /\ t \in Token /\ t \notin Referenced
    BY <1>4, NewTokenIsNew DEF SaveRefreshToken
  <2>2. tokens' \in [Token -> Dev \cup {None}]
    BY <1>0, <1>4, <2>1 DEF SaveRefreshToken, TypeOK
  <2>3. faults' \in 0..MaxFaults
    BY <1>0, <1>4, CallType DEF SaveRefreshToken
  <2>4. CASE Respond(q, 500, None)
    <3>1. Quiet(q) /\ pc'[q] = "answered"
      BY <1>0, <2>1, <2>4, RespondQuiet DEF Status
    <3>2. TypeOK'
      BY <1>0, <2>1, <2>2, <2>3, <3>1, QuietType DEF TypeOK
    <3> QED BY <1>0, <2>1, <3>2
  <2>5. CASE Respond(q, 200, t)
    <3> HIDE DEF t
    <3>1. /\ pc' = [pc EXCEPT ![q] = "answered"] /\ code' = [code EXCEPT ![q] = 200]
          /\ new' = [new EXCEPT ![q] = t] /\ UNCHANGED <<hold, access>>
      BY <2>1, <2>5 DEF Respond, client
    <3>2. new' \in [Req -> Token \cup {None}] /\ code' \in [Req -> {0, 200, 401, 404, 409, 500}]
      BY <1>0, <2>1, <3>1 DEF TypeOK
    <3>3. pc' \in [Req -> {"idle", "create", "save", "device", "drop", "revoke", "me", "answered"}]
      BY <1>0, <3>1 DEF TypeOK
    <3>4. used' \subseteq Given'
      <4>1. new[q] = None
        BY <1>0, <2>1 DEF TypeOK
      <4>2. \A p \in Req \ {q} : new'[p] = new[p]
        BY <1>0, <3>1 DEF TypeOK
      <4> QED BY <1>0, <2>1, <3>1, <4>1, <4>2 DEF Given
    <3>5. \A p \in Req :
            /\ pc'[p] \in {"device", "drop", "revoke"} => tok'[p] # None
            /\ new'[p] # None => pc'[p] = "answered" /\ code'[p] = 200
      BY <1>0, <2>1, <3>1 DEF TypeOK
    <3> QED BY <1>0, <2>1, <2>2, <2>3, <3>1, <3>2, <3>3, <3>4, <3>5 DEF TypeOK
  <2> QED BY <1>4, <2>4, <2>5 DEF SaveRefreshToken
<1>5. ASSUME NEW q \in Req, NEW err \in BOOLEAN, Refresh(q, err) PROVE TypeOK' /\ used' \subseteq Token
  <2> DEFINE t == hold[Owner[q]]
  <2>1. /\ pc[q] = "idle" /\ t # None /\ t \in Token /\ t \in Given
        /\ tok' = [tok EXCEPT ![q] = t] /\ used' = used \cup {t}
        /\ UNCHANGED <<devices, tokens, client>>
    BY <1>0, <1>5 DEF Refresh, TypeOK, Given, store
  <2>2. /\ tok' \in [Req -> Token \cup {None}] /\ tok'[q] # None
        /\ \A p \in Req \ {q} : tok'[p] = tok[p]
    BY <1>0, <2>1 DEF TypeOK
  <2>3. dev' \in [Req -> Dev]
    <3>1. \/ dev' = [dev EXCEPT ![q] = Owner[q]]
          \/ t \in live /\ dev' = [dev EXCEPT ![q] = tokens[t]]
      BY <1>5 DEF Refresh
    <3> QED BY <1>0, <3>1 DEF TypeOK, live
  <2>4. faults' \in 0..MaxFaults
    BY <1>0, <1>5, CallType DEF Refresh
  <2>5. Quiet(q) /\ pc'[q] \in {"answered", "device"}
    BY <1>0, <1>5, <2>1, GotoQuiet, RespondQuiet DEF Refresh, Place, Status
  <2>6. TypeOK'
    BY <1>0, <2>1, <2>2, <2>3, <2>4, <2>5, QuietType DEF TypeOK
  <2> QED BY <1>0, <2>1, <2>6
<1>6. ASSUME NEW q \in Req, NEW err \in BOOLEAN, GetDeviceByID(q, err) PROVE TypeOK' /\ used' \subseteq Token
  <2>1. pc[q] = "device" /\ UNCHANGED <<devices, tokens, dev, tok, client, used>> /\ tok[q] # None
    BY <1>0, <1>6 DEF GetDeviceByID, store, TypeOK
  <2>2. Quiet(q)
    BY <1>0, <1>6, <2>1, GotoQuiet DEF GetDeviceByID, Place
  <2>3. faults' \in 0..MaxFaults
    BY <1>0, <1>6, CallType DEF GetDeviceByID
  <2>4. TypeOK'
    BY <1>0, <2>1, <2>2, <2>3, QuietType DEF TypeOK
  <2> QED BY <1>0, <2>1, <2>4
<1>7. ASSUME NEW q \in Req, NEW err \in BOOLEAN, RevokeDeleted(q, err) \/ DeleteRefreshToken(q, err)
      PROVE  TypeOK' /\ used' \subseteq Token
  <2>1. /\ pc[q] \in {"drop", "revoke"} /\ UNCHANGED <<devices, dev, tok, client, used>>
        /\ tokens' \in [Token -> Dev \cup {None}]
    BY <1>0, <1>7 DEF RevokeDeleted, DeleteRefreshToken, Drop, TypeOK
  <2>2. Quiet(q) /\ pc'[q] \in {"answered", "save"}
    BY <1>0, <1>7, <2>1, GotoQuiet, RespondQuiet DEF RevokeDeleted, DeleteRefreshToken, Place, Status
  <2>3. faults' \in 0..MaxFaults
    BY <1>0, <1>7, CallType DEF RevokeDeleted, DeleteRefreshToken
  <2>4. TypeOK'
    BY <1>0, <2>1, <2>2, <2>3, QuietType DEF TypeOK
  <2> QED BY <1>0, <2>1, <2>4
<1>8. ASSUME NEW q \in Req, NEW err \in BOOLEAN, AuthMiddleware(q, err) PROVE TypeOK' /\ used' \subseteq Token
  <2>1. /\ pc[q] = "idle" /\ tok' = [tok EXCEPT ![q] = None] /\ dev' = [dev EXCEPT ![q] = Owner[q]]
        /\ UNCHANGED <<devices, tokens, client, used>>
    BY <1>8 DEF AuthMiddleware, store
  <2>2. /\ tok' \in [Req -> Token \cup {None}] /\ dev' \in [Req -> Dev]
        /\ \A p \in Req \ {q} : tok'[p] = tok[p]
    BY <1>0, <2>1 DEF TypeOK
  <2>3. faults' \in 0..MaxFaults
    BY <1>0, <1>8, CallType DEF AuthMiddleware
  <2>4. Respond(q, 500, None) \/ Respond(q, 401, None) \/ Goto(q, "me")
    BY <1>8 DEF AuthMiddleware
  <2>5. Quiet(q) /\ pc'[q] \in {"answered", "me"}
    BY <1>0, <2>1, <2>4, GotoQuiet, RespondQuiet DEF Place, Status
  <2>6. TypeOK'
    BY <1>0, <2>1, <2>2, <2>3, <2>5, QuietType DEF TypeOK
  <2> QED BY <1>0, <2>1, <2>6
<1>9. ASSUME NEW q \in Req, NEW err \in BOOLEAN, MeHandler(q, err) PROVE TypeOK' /\ used' \subseteq Token
  <2>1. pc[q] = "me" /\ UNCHANGED <<devices, tokens, dev, tok, client, used>>
    BY <1>9 DEF MeHandler, store
  <2>2. Respond(q, 500, None) \/ Respond(q, 200, None) \/ Respond(q, 404, None)
    BY <1>9 DEF MeHandler
  <2>3. Quiet(q) /\ pc'[q] = "answered"
    BY <1>0, <2>1, <2>2, RespondQuiet DEF Status
  <2>4. faults' \in 0..MaxFaults
    BY <1>0, <1>9, CallType DEF MeHandler
  <2>5. TypeOK'
    BY <1>0, <2>1, <2>3, <2>4, QuietType DEF TypeOK
  <2> QED BY <1>0, <2>1, <2>5
<1>10. ASSUME NEW q \in Req, Receive(q) \/ LoseAnswer(q) PROVE TypeOK' /\ used' \subseteq Token
  <2>1. Idle(q) /\ UNCHANGED store /\ used' = used \cap Given'
    BY <1>10 DEF Receive, LoseAnswer
  <2>2. hold' \in [Dev -> Token \cup {None}] /\ access' \subseteq Dev
    <3>1. CASE UNCHANGED client
      BY <1>0, <3>1 DEF client, TypeOK
    <3>2. CASE hold' = [hold EXCEPT ![Owner[q]] = new[q]] /\ access' = access \cup {Owner[q]}
      BY <1>0, <3>2 DEF TypeOK
    <3>3. CASE /\ hold' = [hold EXCEPT ![Owner[q]] = IF @ = tok[q] THEN None ELSE @]
               /\ UNCHANGED access
      BY <1>0, <3>3 DEF TypeOK
    <3>4. CASE access' = access \ {Owner[q]} /\ UNCHANGED hold
      BY <1>0, <3>4 DEF TypeOK
    <3> QED BY <1>10, <3>1, <3>2, <3>3, <3>4 DEF Receive, LoseAnswer
  <2>3. faults' \in 0..MaxFaults
    <3>1. UNCHANGED faults \/ Call(TRUE)
      BY <1>10 DEF Receive, LoseAnswer
    <3>2. CASE UNCHANGED faults
      BY <1>0, <3>2 DEF TypeOK
    <3>3. CASE Call(TRUE)
      BY <1>0, <3>3, CallType
    <3> QED BY <3>1, <3>2, <3>3
  <2>4. /\ pc' \in [Req -> {"idle", "create", "save", "device", "drop", "revoke", "me", "answered"}]
        /\ code' \in [Req -> {0, 200, 401, 404, 409, 500}]
    BY <1>0, <2>1 DEF Idle, TypeOK
  <2>5. tok' \in [Req -> Token \cup {None}] /\ new' \in [Req -> Token \cup {None}] /\ dev' = dev
    BY <1>0, <2>1 DEF Idle, TypeOK
  <2>6. \A p \in Req :
          /\ pc'[p] \in {"device", "drop", "revoke"} => tok'[p] # None
          /\ new'[p] # None => pc'[p] = "answered" /\ code'[p] = 200
    BY <1>0, <2>1 DEF Idle, TypeOK
  <2> QED BY <1>0, <2>1, <2>2, <2>3, <2>4, <2>5, <2>6 DEF TypeOK, store
<1>11. ASSUME NEW t \in Token, ExpireToken(t) PROVE TypeOK' /\ used' \subseteq Token
  <2>1. /\ UNCHANGED <<devices, pc, dev, tok, code, new, hold, access, faults>>
        /\ used' = used \cup ({t} \cap Given) /\ tokens' \in [Token -> Dev \cup {None}]
    BY <1>0, <1>11 DEF ExpireToken, Drop, request, client, TypeOK
  <2>2. Given' = Given
    BY <2>1, GivenSame
  <2> QED BY <1>0, <2>1, <2>2 DEF TypeOK
<1>12. ASSUME NEW d \in Dev, ExpireAccess(d) PROVE TypeOK' /\ used' \subseteq Token
  BY <1>0, <1>12, GivenSame DEF ExpireAccess, store, request, TypeOK
<1>13. CASE ResetData
  <2>1. faults' \in 0..MaxFaults
    BY <1>0, <1>13, CallType DEF ResetData
  <2> QED BY <1>0, <1>13, <2>1, GivenSame DEF ResetData, request, client, TypeOK
<1> QED BY <1>1, <1>2, <1>3, <1>4, <1>5, <1>6, <1>7, <1>8, <1>9, <1>10, <1>11, <1>12, <1>13
        DEF Next, Send, Step

-----------------------------------------------------------------------------
(* Tokens *)

LEMMA LiveSame ==
    ASSUME UNCHANGED tokens
    PROVE  live' = live
  BY DEF live

LEMMA TokensKept ==
    ASSUME TypeOK, TokensOK, UNCHANGED <<tokens, hold, new, used>>,
           \A p \in Req : tok'[p] \in {tok[p], None}
    PROVE  TokensOK'
<1>1. live' = live /\ Given' = Given
  BY LiveSame, GivenSame
<1> QED BY <1>1 DEF TokensOK, Belongs, Works

\* A token is dropped only when it is used, if anybody was given it.
LEMMA TokensDropped ==
    ASSUME TypeOK, TokensOK, None \notin Token, NEW t \in Token,
           tokens' = [tokens EXCEPT ![t] = None],
           UNCHANGED <<hold, new, tok>>, used \subseteq used', t \in Given => t \in used'
    PROVE  TokensOK'
<1>1. Given' = Given
  BY GivenSame
<1>2. live' = live \ {t} /\ \A u \in live' : tokens'[u] = tokens[u]
  BY DEF live, TypeOK
<1>3. \A u \in live' : tokens'[u] \in Keyed
  BY <1>2 DEF TokensOK
<1>4. (\A d \in Dev : Belongs(hold[d], d)') /\ (\A q \in Req : Belongs(new[q], Owner[q])')
  BY <1>2 DEF TokensOK, Belongs
<1>5. \A u \in Given' : Works(u)'
  BY <1>1, <1>2 DEF TokensOK, Works
<1>6. \A q \in Req : tok'[q] # None /\ tok'[q] \in Given' => tok'[q] \in used'
  BY <1>1 DEF TokensOK
<1> QED BY <1>3, <1>4, <1>5, <1>6 DEF TokensOK

\* A new token is written, and handed out or not.
LEMMA TokensSaved ==
    ASSUME TypeOK, TokensOK, None \notin Token, NEW q \in Req, Owner[q] \in Keyed,
           NEW t \in Token, t \notin Referenced, new[q] = None,
           Owner[q] \in Dev, Owner[q] # None,
           tokens' = [tokens EXCEPT ![t] = Owner[q]],
           new' = new \/ new' = [new EXCEPT ![q] = t],
           UNCHANGED <<hold, tok, used>>
    PROVE  TokensOK'
<1>1. /\ live' = live \cup {t} /\ t \notin live /\ tokens'[t] = Owner[q]
      /\ \A u \in live : tokens'[u] = tokens[u]
  BY DEF live, TypeOK, Referenced
<1>2. \A u \in Given' : u \in Given \/ u = t
  BY DEF Given, TypeOK
<1>3. t \notin Given /\ \A p \in Req : tok[p] # t
  BY DEF Referenced
<1>4. \A u \in live' : tokens'[u] \in Keyed
  BY <1>1 DEF TokensOK
<1>5. \A d \in Dev : Belongs(hold[d], d)'
  BY <1>1, <1>3 DEF TokensOK, Belongs, Given
<1>6. \A p \in Req : Belongs(new[p], Owner[p])'
  BY <1>1, <1>3 DEF TokensOK, Belongs, Given, TypeOK
<1>7. \A u \in Given' : Works(u)'
  BY <1>1, <1>2 DEF TokensOK, Works
<1>8. \A p \in Req : tok'[p] # None /\ tok'[p] \in Given' => tok'[p] \in used'
  BY <1>2, <1>3 DEF TokensOK
<1> QED BY <1>4, <1>5, <1>6, <1>7, <1>8 DEF TokensOK

LEMMA TokensStep == Inv /\ [Next]_avars => TokensOK'
<1> SUFFICES ASSUME Inv, [Next]_avars PROVE TokensOK'
  OBVIOUS
<1>0. /\ TypeOK /\ TokensOK /\ (\A q \in Req : RequestOK(q))
      /\ None \notin Token /\ None \notin Dev /\ Owner \in [Req -> Dev]
  BY AuthAssumption DEF Inv
<1>1. CASE UNCHANGED avars
  BY <1>0, <1>1, TokensKept DEF avars, store, request, client
<1>2. ASSUME NEW q \in Req, NEW err \in BOOLEAN, Register(q, err) \/ AuthMiddleware(q, err)
      PROVE  TokensOK'
  <2>1. UNCHANGED <<tokens, hold, used>> /\ tok' = [tok EXCEPT ![q] = None] /\ pc[q] = "idle"
    BY <1>2 DEF Register, AuthMiddleware, store, client
  <2>2. \A p \in Req : tok'[p] \in {tok[p], None}
    BY <1>0, <2>1 DEF TypeOK
  <2>3. new' = new
    <3>1. \/ Respond(q, 401, None) \/ Respond(q, 500, None)
          \/ \E place \in Place : Goto(q, place)
      BY <1>2 DEF Register, AuthMiddleware, Place
    <3> QED BY <1>0, <2>1, <3>1, RespondQuiet DEF Goto, Quiet, Status
  <2> QED BY <1>0, <2>1, <2>2, <2>3, TokensKept
<1>3. ASSUME NEW q \in Req, NEW err \in BOOLEAN,
             CreateDevice(q, err) \/ GetDeviceByID(q, err) \/ MeHandler(q, err)
      PROVE  TokensOK'
  <2>1. UNCHANGED <<tokens, hold, used, tok>> /\ pc[q] \in {"create", "device", "me"}
    BY <1>3 DEF CreateDevice, GetDeviceByID, MeHandler, store, client
  <2>2. new' = new
    <3>1. \/ \E c \in Status : Respond(q, c, None)
          \/ \E place \in Place : Goto(q, place)
      BY <1>3 DEF CreateDevice, GetDeviceByID, MeHandler, Place, Status
    <3> QED BY <1>0, <2>1, <3>1, RespondQuiet DEF Goto, Quiet
  <2> QED BY <1>0, <2>1, <2>2, TokensKept
<1>4. ASSUME NEW q \in Req, NEW err \in BOOLEAN, SaveRefreshToken(q, err) PROVE TokensOK'
  <2>1. PICK t \in Token : t = newRefreshToken /\ t \notin Referenced
    BY <1>4, NewTokenIsNew DEF SaveRefreshToken
  <2>2. /\ pc[q] = "save" /\ new[q] = None /\ Owner[q] \in Keyed /\ dev[q] = Owner[q]
        /\ UNCHANGED <<hold, tok, used>>
    BY <1>0, <1>4 DEF SaveRefreshToken, TypeOK, RequestOK, client
  <2>3. \/ new' = new /\ (tokens' = [tokens EXCEPT ![t] = Owner[q]] \/ UNCHANGED tokens)
        \/ new' = [new EXCEPT ![q] = t] /\ tokens' = [tokens EXCEPT ![t] = Owner[q]]
    <3>1. CASE err
      <4>1. Respond(q, 500, None)
        BY <1>4, <3>1 DEF SaveRefreshToken
      <4>2. new' = new
        BY <1>0, <2>2, <4>1, RespondQuiet DEF Quiet, Status
      <4> QED BY <1>4, <2>1, <2>2, <4>2 DEF SaveRefreshToken
    <3>2. CASE ~err
      BY <1>4, <2>1, <2>2, <3>2 DEF SaveRefreshToken, Respond
    <3> QED BY <3>1, <3>2
  <2>4. Owner[q] \in Dev /\ Owner[q] # None
    BY <1>0
  <2>5. CASE UNCHANGED <<tokens, new>>
    BY <1>0, <2>2, <2>5, TokensKept
  <2>6. CASE tokens' = [tokens EXCEPT ![t] = Owner[q]]
    BY <1>0, <2>1, <2>2, <2>3, <2>4, <2>6, TokensSaved
  <2> QED BY <2>3, <2>5, <2>6
<1>5. ASSUME NEW q \in Req, NEW err \in BOOLEAN, Refresh(q, err) PROVE TokensOK'
  <2> DEFINE t == hold[Owner[q]]
  <2>1. /\ UNCHANGED <<tokens, hold>> /\ tok' = [tok EXCEPT ![q] = t] /\ used' = used \cup {t}
        /\ pc[q] = "idle"
    BY <1>5 DEF Refresh, store, client
  <2>2. new' = new
    <3>1. Respond(q, 401, None) \/ Goto(q, "device")
      BY <1>5 DEF Refresh
    <3> QED BY <1>0, <2>1, <3>1, RespondQuiet DEF Goto, Quiet, Status
  <2>3. live' = live /\ Given' = Given
    BY <2>1, <2>2, LiveSame, GivenSame
  <2> HIDE DEF t
  <2>4. \A p \in Req : tok'[p] = tok[p] \/ tok'[p] = t
    BY <1>0, <2>1 DEF TypeOK
  <2> QED BY <1>0, <2>1, <2>2, <2>3, <2>4 DEF TokensOK, Belongs, Works
<1>6. ASSUME NEW q \in Req, NEW err \in BOOLEAN, RevokeDeleted(q, err) \/ DeleteRefreshToken(q, err)
      PROVE  TokensOK'
  <2>1. /\ UNCHANGED <<hold, used, tok>> /\ pc[q] \in {"drop", "revoke"} /\ tok[q] \in Token
        /\ Drop(tok[q]) \/ UNCHANGED tokens
    BY <1>0, <1>6 DEF RevokeDeleted, DeleteRefreshToken, client, TypeOK
  <2>2. new' = new
    <3>1. Respond(q, 401, None) \/ Respond(q, 500, None) \/ Goto(q, "save")
      BY <1>6 DEF RevokeDeleted, DeleteRefreshToken
    <3> QED BY <1>0, <2>1, <3>1, RespondQuiet DEF Goto, Quiet, Status
  <2>3. CASE UNCHANGED tokens
    BY <1>0, <2>1, <2>2, <2>3, TokensKept
  <2>4. CASE Drop(tok[q])
    <3>1. tok[q] \in Given => tok[q] \in used'
      BY <1>0, <2>1 DEF TokensOK
    <3> QED BY <1>0, <2>1, <2>2, <2>4, <3>1, TokensDropped DEF Drop
  <2> QED BY <2>1, <2>3, <2>4
<1>7. ASSUME NEW q \in Req, Receive(q) \/ LoseAnswer(q) PROVE TokensOK'
  <2>1. /\ UNCHANGED tokens /\ used' = used \cap Given'
        /\ tok' = [tok EXCEPT ![q] = None] /\ new' = [new EXCEPT ![q] = None]
    BY <1>7 DEF Receive, LoseAnswer, Idle, store
  <2>2. live' = live
    BY <2>1, LiveSame
  <2>3. \A d \in Dev : hold'[d] \in {hold[d], None} \/ (d = Owner[q] /\ hold'[d] = new[q])
    <3>1. \/ UNCHANGED hold
          \/ hold' = [hold EXCEPT ![Owner[q]] = new[q]]
          \/ hold' = [hold EXCEPT ![Owner[q]] = IF @ = tok[q] THEN None ELSE @]
      BY <1>7 DEF Receive, LoseAnswer, client
    <3> QED BY <1>0, <3>1 DEF TypeOK
  <2>4. \A p \in Req : new'[p] \in {new[p], None} /\ tok'[p] \in {tok[p], None}
    BY <1>0, <2>1 DEF TypeOK
  <2>5. \A u \in Given' : u \in Given \/ u = None
    BY <2>3, <2>4 DEF Given
  <2>6. None \notin live
    BY <1>0 DEF live
  <2>7. \A u \in live' : tokens'[u] \in Keyed
    BY <1>0, <2>1, <2>2 DEF TokensOK
  <2>8. \A d \in Dev : Belongs(hold[d], d)'
    BY <1>0, <2>1, <2>2, <2>3, <2>6 DEF TokensOK, Belongs
  <2>9. \A p \in Req : Belongs(new[p], Owner[p])'
    BY <1>0, <2>1, <2>2, <2>4, <2>6 DEF TokensOK, Belongs
  <2>10. \A u \in Given' : Works(u)'
    BY <1>0, <2>1, <2>2, <2>5 DEF TokensOK, Works
  <2>11. \A p \in Req : tok'[p] # None /\ tok'[p] \in Given' => tok'[p] \in used'
    BY <1>0, <2>1, <2>4, <2>5 DEF TokensOK
  <2> QED BY <2>7, <2>8, <2>9, <2>10, <2>11 DEF TokensOK
<1>8. ASSUME NEW t \in Token, ExpireToken(t) PROVE TokensOK'
  <2>1. /\ tokens' = [tokens EXCEPT ![t] = None] /\ UNCHANGED <<hold, new, tok>>
        /\ used' = used \cup ({t} \cap Given)
    BY <1>8 DEF ExpireToken, Drop, request, client
  <2> QED BY <1>0, <2>1, TokensDropped
<1>9. CASE ResetData \/ \E d \in Dev : ExpireAccess(d)
  BY <1>0, <1>9, TokensKept DEF ResetData, ExpireAccess, store, request, client
<1> QED BY <1>1, <1>2, <1>3, <1>4, <1>5, <1>6, <1>7, <1>8, <1>9 DEF Next, Send, Step

-----------------------------------------------------------------------------
(* Requests and devices *)

\* What becomes acceptable is a token nobody knew.
NothingRevived == (live' \ live) \cap Referenced = {}

LEMMA NothingRevivedStep == Inv /\ [Next]_avars => NothingRevived
<1> SUFFICES ASSUME Inv, [Next]_avars PROVE NothingRevived
  OBVIOUS
<1>0. TypeOK /\ None \notin Token /\ None \notin Dev
  BY AuthAssumption DEF Inv
<1>1. CASE UNCHANGED tokens
  BY <1>1, LiveSame DEF NothingRevived
<1>2. ASSUME NEW t \in Token, Drop(t) PROVE NothingRevived
  <2>1. live' \subseteq live
    BY <1>0, <1>2 DEF Drop, live, TypeOK
  <2> QED BY <2>1 DEF NothingRevived
<1>3. ASSUME NEW q \in Req, NEW err \in BOOLEAN, SaveRefreshToken(q, err) PROVE NothingRevived
  <2>1. PICK t \in Token : t = newRefreshToken /\ t \notin Referenced
    BY <1>3, NewTokenIsNew DEF SaveRefreshToken
  <2>2. live' \subseteq live \cup {t}
    BY <1>0, <1>3, <2>1 DEF SaveRefreshToken, live, TypeOK
  <2> QED BY <2>1, <2>2 DEF NothingRevived
<1>4. ASSUME NEW q \in Req, NEW err \in BOOLEAN, RevokeDeleted(q, err) \/ DeleteRefreshToken(q, err)
      PROVE  NothingRevived
  <2>1. tok[q] \in Token /\ (Drop(tok[q]) \/ UNCHANGED tokens)
    BY <1>0, <1>4 DEF RevokeDeleted, DeleteRefreshToken, TypeOK
  <2>2. CASE Drop(tok[q])
    BY <1>2, <2>1, <2>2
  <2> QED BY <1>1, <2>1, <2>2
<1>5. ASSUME NEW q \in Req, NEW err \in BOOLEAN,
             Send(q, err) \/ CreateDevice(q, err) \/ GetDeviceByID(q, err) \/ MeHandler(q, err)
      PROVE  UNCHANGED tokens
  BY <1>5 DEF Send, Register, Refresh, AuthMiddleware, CreateDevice, GetDeviceByID, MeHandler, store
<1>6. ASSUME NEW q \in Req, Receive(q) \/ LoseAnswer(q) PROVE UNCHANGED tokens
  BY <1>6 DEF Receive, LoseAnswer, store
<1>7. ASSUME NEW t \in Token, ExpireToken(t) PROVE NothingRevived
  BY <1>2, <1>7 DEF ExpireToken
<1>8. CASE ResetData \/ (\E d \in Dev : ExpireAccess(d)) \/ UNCHANGED avars
  BY <1>1, <1>8 DEF ResetData, ExpireAccess, avars, store
<1> QED BY <1>1, <1>3, <1>4, <1>5, <1>6, <1>7, <1>8 DEF Next, Step

SameRequest(p) == pc'[p] = pc[p] /\ dev'[p] = dev[p] /\ tok'[p] = tok[p] /\ new'[p] = new[p]

LEMMA OthersStay ==
    ASSUME TypeOK, NEW q \in Req, NEW err \in BOOLEAN,
           Send(q, err) \/ Step(q, err) \/ Receive(q) \/ LoseAnswer(q),
           NEW p \in Req \ {q}
    PROVE  SameRequest(p)
<1> USE DEF TypeOK, SameRequest
<1>1. ASSUME NEW c, NEW t, Respond(q, c, t) PROVE pc'[p] = pc[p] /\ new'[p] = new[p]
  BY <1>1 DEF Respond
<1>2. ASSUME NEW place, Goto(q, place) PROVE pc'[p] = pc[p] /\ new'[p] = new[p]
  BY <1>2 DEF Goto
<1>3. CASE Register(q, err)
  <2>1. dev'[p] = dev[p] /\ tok'[p] = tok[p]
    BY <1>3 DEF Register
  <2>2. \/ Respond(q, 401, None) \/ Respond(q, 500, None)
        \/ Goto(q, "save") \/ Goto(q, "create")
    BY <1>3 DEF Register
  <2> QED BY <1>1, <1>2, <2>1, <2>2
<1>4. CASE Refresh(q, err)
  <2>1. dev'[p] = dev[p] /\ tok'[p] = tok[p]
    BY <1>4 DEF Refresh
  <2>2. (\E c : Respond(q, c, None)) \/ Goto(q, "device")
    BY <1>4 DEF Refresh
  <2> QED BY <1>1, <1>2, <2>1, <2>2
<1>5. CASE AuthMiddleware(q, err)
  BY <1>1, <1>2, <1>5 DEF AuthMiddleware
<1>6. CASE CreateDevice(q, err)
  BY <1>1, <1>2, <1>6 DEF CreateDevice
<1>7. CASE SaveRefreshToken(q, err)
  BY <1>1, <1>7 DEF SaveRefreshToken
<1>8. CASE GetDeviceByID(q, err)
  BY <1>2, <1>8 DEF GetDeviceByID
<1>9. CASE RevokeDeleted(q, err)
  BY <1>1, <1>9 DEF RevokeDeleted
<1>10. CASE DeleteRefreshToken(q, err)
  BY <1>1, <1>2, <1>10 DEF DeleteRefreshToken
<1>11. CASE MeHandler(q, err)
  BY <1>1, <1>11 DEF MeHandler
<1>12. CASE Receive(q) \/ LoseAnswer(q)
  <2>1. Idle(q)
    BY <1>12 DEF Receive, LoseAnswer
  <2> QED BY <2>1 DEF Idle
<1> QED BY <1>3, <1>4, <1>5, <1>6, <1>7, <1>8, <1>9, <1>10, <1>11, <1>12 DEF Send, Step

LEMMA RequestKept ==
    ASSUME NEW p \in Req, RequestOK(p), SameRequest(p), NothingRevived
    PROVE  RequestOK(p)'
<1>1. tok[p] \in Referenced
  BY DEF Referenced
<1> QED BY <1>1 DEF RequestOK, SameRequest, NothingRevived

LEMMA RequestStep ==
    ASSUME Inv, NothingRevived, NEW q \in Req, NEW err \in BOOLEAN,
           Send(q, err) \/ Step(q, err) \/ Receive(q) \/ LoseAnswer(q)
    PROVE  RequestOK(q)'
<1>0. /\ TypeOK /\ TokensOK /\ RequestOK(q) /\ DevicesOK
      /\ None \notin Token /\ None \notin Dev /\ Owner \in [Req -> Dev]
  BY AuthAssumption DEF Inv
<1>01. tok[q] \notin live => tok[q] \notin live'
  BY DEF NothingRevived, Referenced
<1>02. None \notin live'
  BY <1>0 DEF live
<1>03. pc[q] # "answered" => new[q] = None
  BY <1>0 DEF TypeOK
<1>04. ASSUME NEW c \in Status, Respond(q, c, None), pc[q] # "answered", dev'[q] = Owner[q]
       PROVE  RequestOK(q)'
  <2>1. pc'[q] = "answered" /\ new'[q] = None
    BY <1>0, <1>04 DEF Respond, TypeOK
  <2> QED BY <1>04, <2>1 DEF RequestOK
<1>1. CASE Register(q, err)
  <2>1. dev'[q] = Owner[q] /\ tok'[q] = None /\ pc[q] = "idle"
    BY <1>0, <1>1 DEF Register, TypeOK
  <2>2. CASE Respond(q, 401, None) \/ Respond(q, 500, None)
    BY <1>04, <2>1, <2>2 DEF Status
  <2>3. CASE Owner[q] \in Keyed /\ (Goto(q, "save") \/ Goto(q, "create"))
    <3>1. pc'[q] \in {"save", "create"} /\ new'[q] = None
      BY <1>0, <1>03, <2>1, <2>3 DEF Goto, TypeOK
    <3> QED BY <1>02, <2>1, <2>3, <3>1 DEF RequestOK
  <2>4. \/ Respond(q, 401, None) \/ Respond(q, 500, None)
        \/ Owner[q] \in Keyed /\ (Goto(q, "save") \/ Goto(q, "create"))
    BY <1>1 DEF Register
  <2> QED BY <2>2, <2>3, <2>4
<1>2. CASE Refresh(q, err)
  <2> DEFINE t == hold[Owner[q]]
  <2>1. pc[q] = "idle"
    BY <1>2 DEF Refresh
  <2>2. CASE Respond(q, 401, None) /\ dev' = [dev EXCEPT ![q] = Owner[q]]
    BY <1>0, <1>04, <2>1, <2>2 DEF Status, TypeOK
  <2>3. CASE t \in live /\ Goto(q, "device") /\ dev' = [dev EXCEPT ![q] = tokens[t]]
    <3>1. tokens[t] = Owner[q] /\ Owner[q] \in Keyed
      BY <1>0, <2>3 DEF TokensOK, Belongs
    <3>2. dev'[q] = Owner[q] /\ pc'[q] = "device" /\ new'[q] = None
      BY <1>0, <1>03, <2>1, <2>3, <3>1 DEF Goto, TypeOK
    <3> QED BY <3>1, <3>2 DEF RequestOK
  <2> QED BY <1>2, <2>2, <2>3 DEF Refresh
<1>3. CASE AuthMiddleware(q, err)
  <2>1. dev'[q] = Owner[q] /\ pc[q] = "idle"
    BY <1>0, <1>3 DEF AuthMiddleware, TypeOK
  <2>2. CASE Respond(q, 500, None) \/ Respond(q, 401, None)
    BY <1>04, <2>1, <2>2 DEF Status
  <2>3. CASE Goto(q, "me")
    <3>1. pc'[q] = "me" /\ new'[q] = None
      BY <1>0, <1>03, <2>1, <2>3 DEF Goto, TypeOK
    <3> QED BY <2>1, <3>1 DEF RequestOK
  <2> QED BY <1>3, <2>2, <2>3 DEF AuthMiddleware
<1>4. CASE CreateDevice(q, err)
  <2>1. pc[q] = "create" /\ dev'[q] = dev[q] /\ tok'[q] = tok[q] /\ tok[q] = None
    BY <1>0, <1>4 DEF CreateDevice, RequestOK
  <2>2. CASE Respond(q, 409, None)
    BY <1>0, <1>04, <2>1, <2>2 DEF Status, RequestOK
  <2>3. CASE Goto(q, "save")
    <3>1. pc'[q] = "save" /\ new'[q] = None
      BY <1>0, <1>03, <2>1, <2>3 DEF Goto, TypeOK
    <3> QED BY <1>0, <1>02, <2>1, <3>1 DEF RequestOK
  <2> QED BY <1>4, <2>2, <2>3 DEF CreateDevice
<1>5. CASE SaveRefreshToken(q, err)
  <2>1. pc[q] = "save" /\ dev'[q] = dev[q] /\ tok'[q] = tok[q]
    BY <1>5 DEF SaveRefreshToken
  <2>2. tok[q] \notin live' /\ Owner[q] \in Keyed
    BY <1>0, <1>01, <2>1 DEF RequestOK
  <2>3. pc'[q] = "answered"
    BY <1>0, <1>5 DEF SaveRefreshToken, Respond, TypeOK
  <2> QED BY <1>0, <2>1, <2>2, <2>3 DEF RequestOK
<1>6. CASE GetDeviceByID(q, err)
  <2>1. /\ pc[q] = "device" /\ dev'[q] = dev[q] /\ tok'[q] = tok[q] /\ new'[q] = None
        /\ pc'[q] \in {"drop", "revoke"}
    BY <1>0, <1>03, <1>6 DEF GetDeviceByID, Goto, TypeOK
  <2> QED BY <1>0, <2>1 DEF RequestOK
<1>7. CASE RevokeDeleted(q, err)
  <2>1. pc[q] = "drop" /\ dev'[q] = dev[q] /\ Respond(q, 401, None)
    BY <1>7 DEF RevokeDeleted
  <2> QED BY <1>0, <1>04, <2>1 DEF Status, RequestOK
<1>8. CASE DeleteRefreshToken(q, err)
  <2>1. pc[q] = "revoke" /\ dev'[q] = dev[q] /\ tok'[q] = tok[q] /\ tok[q] \in Token
    BY <1>0, <1>8 DEF DeleteRefreshToken, TypeOK
  <2>2. CASE err
    <3>1. Respond(q, 500, None)
      BY <1>8, <2>2 DEF DeleteRefreshToken
    <3> QED BY <1>0, <1>04, <2>1, <3>1 DEF Status, RequestOK
  <2>3. CASE ~err
    <3>1. Goto(q, "save") /\ Drop(tok[q])
      BY <1>8, <2>3 DEF DeleteRefreshToken
    <3>2. pc'[q] = "save" /\ new'[q] = None
      BY <1>0, <1>03, <2>1, <3>1 DEF Goto, TypeOK
    <3>3. tok[q] \notin live'
      BY <1>0, <2>1, <3>1 DEF Drop, live, TypeOK
    <3> QED BY <1>0, <2>1, <3>2, <3>3 DEF RequestOK
  <2> QED BY <2>2, <2>3
<1>9. CASE MeHandler(q, err)
  <2>1. pc[q] = "me" /\ dev'[q] = dev[q] /\ \E c \in Status : Respond(q, c, None)
    BY <1>9 DEF MeHandler, Status
  <2> QED BY <1>0, <1>04, <2>1 DEF RequestOK
<1>10. CASE Receive(q) \/ LoseAnswer(q)
  <2>1. pc'[q] = "idle" /\ dev'[q] = dev[q] /\ new'[q] = None
    <3>1. Idle(q)
      BY <1>10 DEF Receive, LoseAnswer
    <3> QED BY <1>0, <3>1 DEF Idle, TypeOK
  <2> QED BY <1>0, <2>1 DEF RequestOK
<1> QED BY <1>1, <1>2, <1>3, <1>4, <1>5, <1>6, <1>7, <1>8, <1>9, <1>10 DEF Send, Step

LEMMA DevicesStep == Inv /\ [Next]_avars => DevicesOK'
<1> SUFFICES ASSUME Inv, [Next]_avars PROVE DevicesOK'
  OBVIOUS
<1>0. TypeOK /\ DevicesOK /\ \A q \in Req : RequestOK(q)
  BY DEF Inv
<1> USE DEF DevicesOK
<1>1. CASE devices' \subseteq devices /\ access' \subseteq access
  BY <1>0, <1>1
<1>2. ASSUME NEW q \in Req, NEW err \in BOOLEAN, CreateDevice(q, err) PROVE DevicesOK'
  <2>1. dev[q] \in Keyed
    BY <1>0, <1>2 DEF CreateDevice, RequestOK
  <2> QED BY <1>0, <1>2, <2>1 DEF CreateDevice, client
<1>3. ASSUME NEW q \in Req, NEW err \in BOOLEAN, Send(q, err) \/ Step(q, err), ~CreateDevice(q, err)
      PROVE  UNCHANGED <<devices, access>>
  BY <1>3 DEF Send, Step, Register, Refresh, AuthMiddleware, SaveRefreshToken, GetDeviceByID,
              RevokeDeleted, DeleteRefreshToken, MeHandler, store, client
<1>4. ASSUME NEW q \in Req, Receive(q) PROVE DevicesOK'
  <2>1. /\ devices' = devices
        /\ access' \subseteq access \/ (new[q] # None /\ access' = access \cup {Owner[q]})
    BY <1>4 DEF Receive, store, client
  <2> QED BY <1>0, <2>1 DEF RequestOK
<1>5. ASSUME NEW q \in Req, LoseAnswer(q) PROVE DevicesOK'
  BY <1>1, <1>5 DEF LoseAnswer, store, client
<1>6. CASE ResetData \/ UNCHANGED avars
  BY <1>1, <1>6 DEF ResetData, avars, store, client
<1>7. ASSUME NEW d \in Dev, ExpireAccess(d) PROVE DevicesOK'
  BY <1>1, <1>7 DEF ExpireAccess, store
<1>8. ASSUME NEW t \in Token, ExpireToken(t) PROVE DevicesOK'
  BY <1>1, <1>8 DEF ExpireToken, client
<1> QED BY <1>1, <1>2, <1>3, <1>4, <1>5, <1>6, <1>7, <1>8 DEF Next

-----------------------------------------------------------------------------
(* The theorems *)

LEMMA InvInit == Init => Inv
<1> SUFFICES ASSUME Init PROVE Inv
  OBVIOUS
<1>1. TypeOK /\ used \subseteq Token
  BY AuthAssumption DEF Init, TypeOK
<1>2. live = {}
  BY DEF Init, live
<1>3. \A t \in Given : t = None
  BY DEF Init, Given
<1>4. TokensOK
  BY <1>2, <1>3 DEF Init, TokensOK, Belongs, Works
<1>5. (\A q \in Req : RequestOK(q)) /\ DevicesOK
  BY <1>2 DEF Init, RequestOK, DevicesOK
<1> QED BY <1>1, <1>4, <1>5 DEF Inv

LEMMA InvStep == Inv /\ [Next]_avars => Inv' /\ NothingRevived
<1> SUFFICES ASSUME Inv, [Next]_avars PROVE Inv' /\ NothingRevived
  OBVIOUS
<1>1. TypeOK' /\ used' \subseteq Token /\ TokensOK' /\ DevicesOK' /\ NothingRevived
  BY TypeStep, TokensStep, DevicesStep, NothingRevivedStep
<1>2. ASSUME NEW p \in Req PROVE RequestOK(p)'
  <2>0. TypeOK /\ RequestOK(p)
    BY DEF Inv
  <2>1. ASSUME NEW q \in Req, NEW err \in BOOLEAN,
               Send(q, err) \/ Step(q, err) \/ Receive(q) \/ LoseAnswer(q)
        PROVE  RequestOK(p)'
    <3>1. CASE p = q
      BY <1>1, <2>1, <3>1, RequestStep
    <3>2. CASE p # q
      BY <1>1, <2>0, <2>1, <3>2, OthersStay, RequestKept
    <3> QED BY <3>1, <3>2
  <2>2. CASE UNCHANGED request
    BY <1>1, <2>0, <2>2, RequestKept DEF request, SameRequest
  <2>3. CASE (\E t \in Token : ExpireToken(t)) \/ (\E d \in Dev : ExpireAccess(d)) \/ ResetData
    BY <2>2, <2>3 DEF ExpireToken, ExpireAccess, ResetData
  <2>4. CASE UNCHANGED avars
    BY <2>2, <2>4 DEF avars
  <2> QED BY <2>1, <2>3, <2>4 DEF Next
<1> QED BY <1>1, <1>2 DEF Inv

LEMMA InvAlways == Spec => []Inv
<1>1. Inv /\ [Next]_avars => Inv'
  BY InvStep
<1> QED BY <1>1, InvInit, PTL DEF Spec

\* The stores, the requests and what devices keep have their types, whatever
\* the devices, tokens, requests and faults.
THEOREM TypeCorrect == Spec => []TypeOK
<1>1. Inv => TypeOK
  BY DEF Inv
<1> QED BY <1>1, InvAlways, PTL

\* Only devices with the key are registered or hold an access token, and a
\* refresh token a device holds is never accepted as another device's.
THEOREM TokensStayWithTheirDevice == Spec => []TokensBelong
<1>1. Inv => TokensBelong
  BY DEF Inv, TokensBelong, TokensOK, DevicesOK, Belongs
<1> QED BY <1>1, InvAlways, PTL

\* A refresh token a device was given works the first time it is presented,
\* unless it has expired, whichever calls failed and requests raced.
THEOREM FirstRefreshWorks == Spec => []GivenTokenWorks
<1>1. Inv => GivenTokenWorks
  BY DEF Inv, GivenTokenWorks, TokensOK, Works, Given
<1> QED BY <1>1, InvAlways, PTL

\* No refresh is answered while the token it presented lives, and no step
\* revives a token that some device or request knows.
THEOREM SpentTokensStayDead == Spec => SpentIsDead
<1>1. Inv /\ Inv' /\ NothingRevived =>
        [/\ \A q \in Req : new'[q] # None => tok'[q] \notin live'
         /\ (live' \ live) \cap Referenced = {}]_avars
  BY DEF Inv, RequestOK, NothingRevived
<1>2. Inv /\ [Next]_avars => Inv' /\ NothingRevived
  BY InvStep
<1> QED BY <1>1, <1>2, InvAlways, PTL DEF Spec, SpentIsDead

=============================================================================
