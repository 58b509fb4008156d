-------------------------------- MODULE Auth --------------------------------
(***************************************************************************)
(* Devices, refresh tokens and access tokens: AuthService, the device      *)
(* table, the token store (Redis or memory) and the middleware in front of *)
(* the other handlers.  Register and Refresh are several calls to two      *)
(* stores; a device that gave up waiting may have several requests under   *)
(* way.  A call can fail, an answer can get lost, tokens expire and the    *)
(* server's data can be reset.                                             *)
(***************************************************************************)
EXTENDS Naturals

CONSTANTS
    Dev,       \* device ids
    Keyed,     \* the devices that know the connection key
    Token,     \* refresh tokens: a forgotten one stands for a new random one
    None,      \* no token, no device
    Req,       \* request slots
    Owner,     \* the device that sends through a slot
    MaxFaults  \* bound on failed calls, lost answers and resets

ASSUME AuthAssumption ==
    /\ Keyed \subseteq Dev
    /\ None \notin Token \cup Dev
    /\ Owner \in [Req -> Dev]
    /\ MaxFaults \in Nat

VARIABLES
    devices,   \* the rows of the device table
    tokens,    \* the token store: the device of each token it has
    pc,        \* per request, the store call it makes next
    dev,       \* per request, the device it acts for
    tok,       \* per request, the refresh token it presented
    code,      \* per request, the status of its answer
    new,       \* per request, the refresh token in its answer
    hold,      \* per device, the refresh token it keeps
    access,    \* the devices that keep an access token which has not expired
    faults,    \* how many faults have happened
    used       \* history: the given tokens that were presented or have expired

store == <<devices, tokens>>
request == <<pc, dev, tok, code, new>>
client == <<hold, access>>
avars == <<store, request, client, faults, used>>

Init ==
    /\ devices = {}
    /\ tokens = [t \in Token |-> None]
    /\ pc = [q \in Req |-> "idle"]
    /\ dev = [q \in Req |-> Owner[q]]
    /\ tok = [q \in Req |-> None]
    /\ code = [q \in Req |-> 0]
    /\ new = [q \in Req |-> None]
    /\ hold = [d \in Dev |-> None]
    /\ access = {}
    /\ faults = 0
    /\ used = {}

-----------------------------------------------------------------------------
(* How a request moves on *)

\* Whether the store call of this step fails.  A write that failed may have
\* reached the store.
Call(err) ==
    /\ err => faults < MaxFaults
    /\ faults' = IF err THEN faults + 1 ELSE faults

Goto(q, place) ==
    /\ pc' = [pc EXCEPT ![q] = place]
    /\ UNCHANGED <<code, new>>

\* The handler answers with a status and a refresh token, if any.
Respond(q, c, t) ==
    /\ pc' = [pc EXCEPT ![q] = "answered"]
    /\ code' = [code EXCEPT ![q] = c]
    /\ new' = [new EXCEPT ![q] = t]

\* The refresh tokens the store would accept.
live == {t \in Token : tokens[t] # None}

\* The tokens devices keep or are being sent.
Given == {hold[d] : d \in Dev} \cup {new[q] : q \in Req}

\* What a new random token differs from.
Referenced == live \cup Given \cup {tok[q] : q \in Req}

\* Mutant: the token is made from the clock, which does not move in between.
newRefreshTokenFromClock == CHOOSE t \in Token : TRUE

newRefreshToken == CHOOSE t \in Token : t \notin Referenced

-----------------------------------------------------------------------------
(* POST /auth/register *)

\* Mutant: the key is compared only when the device is known already.
RegisterChecksLate(q, err) ==
    LET d == Owner[q] IN
    /\ pc[q] = "idle"
    /\ dev' = [dev EXCEPT ![q] = d]
    /\ tok' = [tok EXCEPT ![q] = None]
    /\ CASE d \in devices /\ d \notin Keyed -> Call(FALSE) /\ Respond(q, 401, None)
         [] err -> Call(TRUE) /\ Respond(q, 500, None)
         [] d \in devices /\ d \in Keyed /\ ~err -> Call(FALSE) /\ Goto(q, "save")
         [] OTHER -> Call(FALSE) /\ Goto(q, "create")
    /\ UNCHANGED <<store, client, used>>

\* Mutant: a device that is registered is refused.
RegisterRefusesKnown(q, err) ==
    LET d == Owner[q] IN
    /\ pc[q] = "idle"
    /\ dev' = [dev EXCEPT ![q] = d]
    /\ tok' = [tok EXCEPT ![q] = None]
    /\ CASE d \notin Keyed -> Call(FALSE) /\ Respond(q, 401, None)
         [] d \in Keyed /\ err -> Call(TRUE) /\ Respond(q, 500, None)
         [] d \in Keyed /\ ~err /\ d \in devices -> Call(FALSE) /\ Respond(q, 409, None)
         [] OTHER -> Call(FALSE) /\ Goto(q, "create")
    /\ UNCHANGED <<store, client, used>>

\* The key is compared, then the device looked up: a known one gets new
\* tokens, an unknown one is created first.
Register(q, err) ==
    LET d == Owner[q] IN
    /\ pc[q] = "idle"
    /\ dev' = [dev EXCEPT ![q] = d]
    /\ tok' = [tok EXCEPT ![q] = None]
    /\ \/ d \notin Keyed /\ Call(FALSE) /\ Respond(q, 401, None)
       \/ d \in Keyed /\ err /\ Call(TRUE) /\ Respond(q, 500, None)
       \/ /\ d \in Keyed /\ ~err /\ Call(FALSE)
          /\ Goto(q, IF d \in devices THEN "save" ELSE "create")
    /\ UNCHANGED <<store, client, used>>

\* The insert; another registration of the device, or any error of the
\* database, is reported as a conflict.
CreateDevice(q, err) ==
    /\ pc[q] = "create"
    /\ Call(err)
    /\ IF err \/ dev[q] \in devices THEN Respond(q, 409, None) ELSE Goto(q, "save")
    /\ devices' = devices \cup {dev[q]} \/ (err /\ UNCHANGED devices)
    /\ UNCHANGED <<tokens, dev, tok, client, used>>

\* Mutant: the error of the token store is not looked at.
SaveIgnoresError(q, err) ==
    LET t == newRefreshToken IN
    /\ pc[q] = "save"
    /\ \E s \in Token : s \notin Referenced
    /\ Call(err)
    /\ tokens' = IF err THEN tokens ELSE [tokens EXCEPT ![t] = dev[q]]
    /\ Respond(q, 200, t)
    /\ UNCHANGED <<devices, dev, tok, client, used>>

\* Mutant: the token goes out with the error.
SaveAnswersToken(q, err) ==
    LET t == newRefreshToken IN
    /\ pc[q] = "save"
    /\ \E s \in Token : s \notin Referenced
    /\ Call(err)
    /\ tokens' = IF err THEN tokens ELSE [tokens EXCEPT ![t] = dev[q]]
    /\ Respond(q, IF err THEN 500 ELSE 200, t)
    /\ UNCHANGED <<devices, dev, tok, client, used>>

\* The new refresh token goes to the store, and with an access token to the
\* device.  TouchDevice, whose error is ignored, sets last_seen_at only.
SaveRefreshToken(q, err) ==
    LET t == newRefreshToken IN
    /\ pc[q] = "save"
    /\ \E s \in Token : s \notin Referenced
    /\ Call(err)
    /\ IF err THEN Respond(q, 500, None) ELSE Respond(q, 200, t)
    /\ tokens' = [tokens EXCEPT ![t] = dev[q]] \/ (err /\ UNCHANGED tokens)
    /\ UNCHANGED <<devices, dev, tok, client, used>>

-----------------------------------------------------------------------------
(* POST /auth/refresh *)

Drop(t) == tokens' = [tokens EXCEPT ![t] = None]

\* GetDeviceByRefreshToken; an error of the store is answered like a token it
\* does not have.
Refresh(q, err) ==
    LET t == hold[Owner[q]] IN
    /\ pc[q] = "idle"
    /\ t # None
    /\ Call(err)
    /\ tok' = [tok EXCEPT ![q] = t]
    /\ used' = used \cup {t}
    /\ IF err \/ t \notin live
       THEN Respond(q, 401, None) /\ dev' = [dev EXCEPT ![q] = Owner[q]]
       ELSE Goto(q, "device") /\ dev' = [dev EXCEPT ![q] = tokens[t]]
    /\ UNCHANGED <<store, client>>

\* GetDeviceByID; any error counts as a device that was deleted.
GetDeviceByID(q, err) ==
    /\ pc[q] = "device"
    /\ Call(err)
    /\ Goto(q, IF err \/ dev[q] \notin devices THEN "drop" ELSE "revoke")
    /\ UNCHANGED <<store, dev, tok, client, used>>

\* The token of a deleted device goes too; an error of the delete is ignored.
RevokeDeleted(q, err) ==
    /\ pc[q] = "drop"
    /\ Call(err)
    /\ Drop(tok[q]) \/ (err /\ UNCHANGED tokens)
    /\ Respond(q, 401, None)
    /\ UNCHANGED <<devices, dev, tok, client, used>>

\* Mutant: the old token is not deleted.
RotateKeepsOld(q, err) ==
    /\ pc[q] = "revoke"
    /\ Call(err)
    /\ IF err THEN Respond(q, 500, None) ELSE Goto(q, "save")
    /\ UNCHANGED <<store, dev, tok, client, used>>

\* The rotation deletes the old token before it writes the new one.
DeleteRefreshToken(q, err) ==
    /\ pc[q] = "revoke"
    /\ Call(err)
    /\ IF err THEN Respond(q, 500, None) ELSE Goto(q, "save")
    /\ Drop(tok[q]) \/ (err /\ UNCHANGED tokens)
    /\ UNCHANGED <<devices, dev, tok, client, used>>

-----------------------------------------------------------------------------
(* GET /me, behind the middleware *)

\* The access token is valid while it has not expired and its device is in
\* the table.
AuthMiddleware(q, err) ==
    LET d == Owner[q] IN
    /\ pc[q] = "idle"
    /\ d \in access
    /\ Call(err)
    /\ dev' = [dev EXCEPT ![q] = d]
    /\ tok' = [tok EXCEPT ![q] = None]
    /\ CASE err -> Respond(q, 500, None)
         [] ~err /\ d \notin devices -> Respond(q, 401, None)
         [] OTHER -> Goto(q, "me")
    /\ UNCHANGED <<store, client, used>>

MeHandler(q, err) ==
    /\ pc[q] = "me"
    /\ Call(err)
    /\ Respond(q, IF err THEN 500 ELSE IF dev[q] \in devices THEN 200 ELSE 404, None)
    /\ UNCHANGED <<store, dev, tok, client, used>>

-----------------------------------------------------------------------------
(* The device, the network and the clock *)

Idle(q) ==
    /\ pc' = [pc EXCEPT ![q] = "idle"]
    /\ tok' = [tok EXCEPT ![q] = None]
    /\ code' = [code EXCEPT ![q] = 0]
    /\ new' = [new EXCEPT ![q] = None]
    /\ UNCHANGED dev

\* The device keeps the tokens it is given.  Refused, it forgets the token
\* that was refused: after a refused refresh it can only register again.
Receive(q) ==
    LET d == Owner[q] IN
    /\ pc[q] = "answered"
    /\ CASE new[q] # None -> /\ hold' = [hold EXCEPT ![d] = new[q]]
                                /\ access' = access \cup {d}
         [] code[q] = 401 /\ tok[q] # None ->
              /\ hold' = [hold EXCEPT ![d] = IF @ = tok[q] THEN None ELSE @]
              /\ UNCHANGED access
         [] code[q] = 401 /\ tok[q] = None -> access' = access \ {d} /\ UNCHANGED hold
         [] OTHER -> UNCHANGED client
    /\ Idle(q)
    /\ used' = used \cap Given'
    /\ UNCHANGED <<store, faults>>

LoseAnswer(q) ==
    /\ pc[q] = "answered"
    /\ Call(TRUE)
    /\ Idle(q)
    /\ UNCHANGED <<store, client>>
    /\ used' = used \cap Given'

\* The time to live of a refresh token ends, or the token store loses it.
ExpireToken(t) ==
    /\ t \in live
    /\ Drop(t)
    /\ used' = used \cup ({t} \cap Given)
    /\ UNCHANGED <<devices, request, client, faults>>

ExpireAccess(d) ==
    /\ d \in access
    /\ access' = access \ {d}
    /\ UNCHANGED <<store, request, hold, faults, used>>

\* The server's database is reset; the token store is another server.
ResetData ==
    /\ devices # {}
    /\ Call(TRUE)
    /\ devices' = {}
    /\ UNCHANGED <<tokens, request, client, used>>

-----------------------------------------------------------------------------

Send(q, err) == Register(q, err) \/ Refresh(q, err) \/ AuthMiddleware(q, err)

Step(q, err) ==
    \/ CreateDevice(q, err)
    \/ SaveRefreshToken(q, err)
    \/ GetDeviceByID(q, err)
    \/ RevokeDeleted(q, err)
    \/ DeleteRefreshToken(q, err)
    \/ MeHandler(q, err)

Next ==
    \/ \E q \in Req, err \in BOOLEAN : Send(q, err) \/ Step(q, err)
    \/ \E q \in Req : Receive(q) \/ LoseAnswer(q)
    \/ \E t \in Token : ExpireToken(t)
    \/ \E d \in Dev : ExpireAccess(d)
    \/ ResetData

\* Handlers run to their answer, answers arrive, a token's time ends, and a
\* device does not stop asking.
Fairness ==
    /\ \A q \in Req : /\ WF_avars(Step(q, FALSE))
                      /\ WF_avars(Receive(q))
    /\ \A d \in Dev : WF_avars(\E q \in Req : Owner[q] = d /\ Send(q, FALSE))
    /\ \A t \in Token : WF_avars(ExpireToken(t))

Spec == Init /\ [][Next]_avars /\ Fairness

-----------------------------------------------------------------------------
(* Properties *)

\* The type of the stores, of the requests and of what the devices keep.
TypeOK ==
    /\ devices \subseteq Dev
    /\ tokens \in [Token -> Dev \cup {None}]
    /\ pc \in [Req -> {"idle", "create", "save", "device", "drop", "revoke", "me", "answered"}]
    /\ dev \in [Req -> Dev]
    /\ tok \in [Req -> Token \cup {None}]
    /\ code \in [Req -> {0, 200, 401, 404, 409, 500}]
    /\ new \in [Req -> Token \cup {None}]
    /\ hold \in [Dev -> Token \cup {None}]
    /\ access \subseteq Dev
    /\ faults \in 0 .. MaxFaults
    /\ used \subseteq Given
    /\ \A q \in Req :
         /\ pc[q] \in {"device", "drop", "revoke"} => tok[q] # None
         /\ new[q] # None => pc[q] = "answered" /\ code[q] = 200

\* Only a device that presented the connection key is registered or has a
\* token, and the token a device keeps is accepted, if at all, as its own:
\* Refresh acts for the device the store names, not for the one that asks
\* (auth_service.go:67-71, 110-121).
TokensBelong ==
    /\ devices \cup access \subseteq Keyed
    /\ \A t \in live : tokens[t] \in Keyed
    /\ \A d \in Dev : hold[d] \in live => tokens[hold[d]] = d

\* A refresh token that a device was given works when it is first presented,
\* unless its time has ended: no error on the way hands out a token the store
\* does not have (auth_service.go:99-104, 129-134).
GivenTokenWorks ==
    \A d \in Dev : hold[d] # None /\ hold[d] \notin used => hold[d] \in live

\* A refresh that is answered has killed the token it presented, and no step
\* of a request that still knows a dead token brings it back, in whatever
\* order refreshes of one token overlap (auth_service.go:125-132).
SpentIsDead ==
    [][/\ \A q \in Req : new'[q] # None => tok'[q] \notin live'
       /\ (live' \ live) \cap Referenced = {}]_avars

Authorised(d) == d \in access /\ d \in devices

\* A device that knows the key is never locked out: lost answers, a rotation
\* that failed half way, a race of registrations, expiry and a reset of the
\* server all leave it a way back in (auth_service.go:73-93,
\* middleware.go:18-19).
NoLockout == \A d \in Keyed : []<>Authorised(d)

=============================================================================
