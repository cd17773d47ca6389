----------------------------- MODULE ConsoleSession -----------------------------
(***************************************************************************)
(* The session of the browser: AuthContext.tsx with api/client.ts and what *)
(* App.tsx and the polling hooks fetch with it.  Requests of one session   *)
(* are answered during the next one, after a sign-out, a new login or a    *)
(* password change (which gives a new token and revokes the old one).      *)
(***************************************************************************)
EXTENDS Naturals, FiniteSets

CONSTANTS
    LastToken,      \* bound: tokens that are issued, 1..LastToken
    MaxRequests,    \* bound: requests under way
    MaxFaults       \* bound: answers that fail or are lost

VARIABLES
    token,      \* state and localStorage: what requests are sent with, 0 for none
    user,       \* whose name, role and permissions are shown, by token; 0 for none
    lists,      \* whose cameras and events are shown, by token; 0 for none
    valid,      \* tokens the server accepts
    issued,     \* tokens issued so far
    passwordChange, \* "idle", or the token whose change is under way
    requests,   \* under way: kind, token, answer of the server
    faults

consoleVars == <<token, user, lists, valid, issued, passwordChange, requests, faults>>

Nobody == 0
Asked == "asked"

(* What a request can come back as.  authenticate answers 401 to a token that is not valid
   and when the lookup of the session throws; anything else that fails is another status
   (the handler throws, the proxy has no server), or no answer at all. *)
Fair == {"ok", "refused"}
Faulty == {"lookupFailed", "failed", "lost"}
Unauthorized(r) == r.answer \in {"refused", "lookupFailed"}

SessionInit ==
    /\ token = Nobody /\ user = Nobody /\ lists = Nobody
    /\ valid = {} /\ issued = 0 /\ passwordChange = Nobody
    /\ requests = {} /\ faults = 0

Sends(kind) ==
    IF token # Nobody THEN {[kind |-> kind, token |-> token, answer |-> Asked]} ELSE {}

-------------------------------------------------------------------------------
(* Login form, sign-out, focus and polling; every new token is verified and    *)
(* its lists are fetched.                                                      *)

SignsIn(t) ==
    /\ token' = t /\ user' = t
    /\ requests' = requests \cup {[kind |-> k, token |-> t, answer |-> Asked] : k \in {"me", "data"}}

Login ==
    /\ token = Nobody /\ issued < LastToken
    /\ issued' = issued + 1 /\ valid' = valid \cup {issued + 1}
    /\ SignsIn(issued + 1)
    /\ UNCHANGED <<lists, passwordChange, faults>>

Logout ==
    /\ token # Nobody
    /\ token' = Nobody /\ user' = Nobody
    /\ UNCHANGED <<lists, valid, issued, passwordChange, requests, faults>>

Fetch(kind) ==
    /\ token # Nobody /\ Cardinality(requests) < MaxRequests
    /\ requests' = requests \cup Sends(kind)
    /\ UNCHANGED <<token, user, lists, valid, issued, passwordChange, faults>>

(* The server bumps tokenVersion and answers with a new token. *)
ChangePassword ==
    /\ token \in valid /\ passwordChange = Nobody /\ issued < LastToken
    /\ valid' = (valid \ {token}) \cup {issued + 1}
    /\ issued' = issued + 1 /\ passwordChange' = issued + 1
    /\ UNCHANGED <<token, user, lists, requests, faults>>

PasswordChanged ==
    /\ passwordChange # Nobody
    /\ SignsIn(passwordChange)
    /\ passwordChange' = Nobody
    /\ UNCHANGED <<lists, valid, issued, faults>>

(* The password is changed and the answer is an error, or none: the session keeps a token
   that is revoked. *)
PasswordAnswerFails ==
    /\ passwordChange # Nobody
    /\ faults < MaxFaults /\ faults' = faults + 1
    /\ passwordChange' = Nobody
    /\ UNCHANGED <<token, user, lists, valid, issued, requests>>

(* An administrator signs the user out everywhere. *)
Revoke ==
    /\ valid # {} /\ valid' = {}
    /\ UNCHANGED <<token, user, lists, issued, passwordChange, requests, faults>>

-------------------------------------------------------------------------------
(* Requests *)

Answer(r, answer) ==
    /\ r.answer = Asked
    /\ requests' = (requests \ {r}) \cup {[r EXCEPT !.answer = answer]}
    /\ UNCHANGED <<token, user, lists, valid, issued, passwordChange>>

ServerAnswers(r) ==
    Answer(r, IF r.token \in valid THEN "ok" ELSE "refused") /\ UNCHANGED faults

ServerFails(r) ==
    /\ faults < MaxFaults /\ faults' = faults + 1
    /\ \E answer \in Faulty : Answer(r, answer)

(* Mutant: any refusal ends the session. *)
RefusedBlindly(r) == token' = Nobody /\ user' = Nobody

(* verifySession and handleUnauthorized end the session of the refused token only. *)
Refused(r) ==
    IF token = r.token THEN token' = Nobody /\ user' = Nobody ELSE UNCHANGED <<token, user>>

(* verifySession takes whatever is not ok for the end of the session, apiFetch a 401. *)
Ends(r) == Unauthorized(r) \/ (r.kind = "me" /\ r.answer = "failed")

Receive(r) ==
    /\ r.answer # Asked
    /\ requests' = requests \ {r}
    /\ \/ Ends(r) /\ Refused(r) /\ UNCHANGED lists
       \/ r.answer = "ok" /\ r.kind = "me" /\ user' = r.token /\ UNCHANGED <<token, lists>>
       \/ r.answer = "ok" /\ r.kind = "data" /\ lists' = r.token /\ UNCHANGED <<token, user>>
       \/ r.answer \in {"failed", "lost"} /\ ~Ends(r) /\ UNCHANGED <<token, user, lists>>
    /\ UNCHANGED <<valid, issued, passwordChange, faults>>

RequestStep(r) == ServerAnswers(r) \/ Receive(r)
Poll == Fetch("data")

ConsoleNext ==
    \/ Login \/ Logout \/ Poll \/ Fetch("me")
    \/ ChangePassword \/ PasswordChanged \/ PasswordAnswerFails \/ Revoke
    \/ \E r \in requests : RequestStep(r) \/ ServerFails(r)

RequestsOf(t, k, answers) == {r \in requests : r.token = t /\ r.kind = k /\ r.answer \in answers}

ConsoleFairness ==
    /\ SF_consoleVars(Poll) /\ WF_consoleVars(PasswordChanged)
    /\ \A t \in 1..LastToken, k \in {"me", "data"}, A \in {{Asked}, Fair \cup Faulty} :
         WF_consoleVars(\E r \in RequestsOf(t, k, A) : RequestStep(r))

ConsoleSpec == SessionInit /\ [][ConsoleNext]_consoleVars /\ ConsoleFairness

-------------------------------------------------------------------------------
(* Properties *)

(***************************************************************************)
(* An answer ends only the session whose token it was asked with, never    *)
(* the one that followed it ("in-flight requests with the old (revoked)    *)
(* token must not wipe the new session"), and only if the server does not  *)
(* accept that token any more, or failed in answering: with a 401 because  *)
(* it could not look the session up, or at all when it was asked who this  *)
(* is.                                                                     *)
(***************************************************************************)
EndedBy(r) == Receive(r) /\ token # Nobody /\ token' = Nobody
AnswerEndsDead ==
    \A r \in requests : EndedBy(r) =>
        /\ r.token = token
        /\ \/ token \notin valid
           \/ r.answer = "lookupFailed"
           \/ r.kind = "me" /\ r.answer = "failed"
OnlyDeadSessionsEnd == [][AnswerEndsDead]_consoleVars

(***************************************************************************)
(* No answer ends a session the server still accepts.  Violated: the else  *)
(* of verifySession ("Token expired or revoked") is taken for a 500 and    *)
(* for a 502 of the proxy as well, and authenticate answers 401 when the   *)
(* database does not.                                                      *)
(***************************************************************************)
LiveSessionsStay == [][\A r \in requests : EndedBy(r) => token \notin valid]_consoleVars

(***************************************************************************)
(* A session the server has ended does not stay on the screen: polling     *)
(* finds it out.                                                           *)
(***************************************************************************)
DeadSessionsEnd == []<>(token = Nobody \/ token \in valid)

(***************************************************************************)
(* What is shown is the session's own.  Violated by an accepted answer     *)
(* that arrives after a sign-out and a new login: neither verifySession    *)
(* nor the fetches compare the token they were sent with.                  *)
(***************************************************************************)
ShowsItsOwn == token # Nobody => user = token /\ lists \in {Nobody, token}

===============================================================================
