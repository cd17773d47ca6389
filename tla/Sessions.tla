-------------------------------- MODULE Sessions --------------------------------
(***************************************************************************)
(* Users, their tokens and who is let in: changes of an account and logins *)
(* (users/auth.service.ts), and the check every request makes of its token *)
(* through a cache (users/session.ts).  Each of them awaits the database   *)
(* or the hash of a password, and others run then.                         *)
(***************************************************************************)
EXTENDS Naturals, FiniteSets

CONSTANTS
    Users,
    Ops,            \* changes of accounts at a time
    Checks,         \* requests whose token is being checked, at a time
    Logins,         \* logins at a time
    MaxVersion      \* bound: changes of one account

VARIABLES
    account,    \* the rows: present, role, tokenVersion
    tokens,     \* the tokens that were issued
    op, check, login,
    cache,      \* of session.ts: what it holds for a user, fresh or not at all
    generation  \* of session.ts: invalidations so far

sessionVars == <<account, tokens, op, check, login, cache, generation>>

Roles == {"ADMIN", "VIEWER"}
Nothing == [present |-> FALSE, role |-> "VIEWER", tv |-> 0]

IdleOp == [at |-> "idle"]
IdleCheck == [at |-> "idle"]
IdleLogin == [at |-> "idle"]
Missing == [present |-> FALSE, role |-> "none", tv |-> 0]

SessionInit ==
    /\ account \in [Users -> {[present |-> TRUE, role |-> r, tv |-> 0] : r \in Roles}]
    /\ \E u \in Users : account[u].role = "ADMIN"
    /\ tokens = {}
    /\ op = [o \in Ops |-> IdleOp]
    /\ check = [c \in Checks |-> IdleCheck]
    /\ login = [l \in Logins |-> IdleLogin]
    /\ cache = [u \in Users |-> Missing]
    /\ generation = [u \in Users |-> 0]

-------------------------------------------------------------------------------
(* Changes of an account, asked for by an administrator or, to sign out or to *)
(* change the password, by the user                                           *)

Kinds == {"revoke", "password", "demote", "promote", "delete"}
OpVars == <<tokens, check, login>>

(* requireUser; nobody changes the own role or deletes the own account. *)
RequireUser(o) ==
    /\ op[o].at = "idle"
    /\ \E kind \in Kinds, u, actor \in Users :
         /\ account[u].present /\ account[actor].present
         /\ account[u].tv < MaxVersion
         /\ account[actor].role = "ADMIN" \/ (actor = u /\ kind \in {"revoke", "password"})
         /\ kind \in {"demote", "promote", "delete"} => actor # u
         /\ kind = "demote" => account[u].role = "ADMIN"
         /\ kind = "promote" => account[u].role = "VIEWER"
         /\ op' = [op EXCEPT ![o] =
                     [at |-> IF kind \in {"demote", "delete"} /\ account[u].role = "ADMIN"
                             THEN "count" ELSE "write",
                      kind |-> kind, user |-> u, read |-> account[u]]]
    /\ UNCHANGED <<account, cache, generation, OpVars>>

AssertNotLastAdmin(o) ==
    /\ op[o].at = "count"
    /\ op' = [op EXCEPT ![o] =
                IF Cardinality({u \in Users : account[u].present /\ account[u].role = "ADMIN"}) <= 1
                THEN IdleOp ELSE [@ EXCEPT !.at = "write"]]
    /\ UNCHANGED <<account, cache, generation, OpVars>>

(* The version that is written is the one that was read, plus one. *)
Changed(o) ==
    LET bumped == [op[o].read EXCEPT !.tv = @ + 1] IN
    CASE op[o].kind = "demote" -> [bumped EXCEPT !.role = "VIEWER"]
      [] op[o].kind = "promote" -> [bumped EXCEPT !.role = "ADMIN"]
      [] op[o].kind = "delete" -> Nothing
      [] OTHER -> [bumped EXCEPT !.role = account[op[o].user].role]

WriteAccount(o) ==
    /\ op[o].at = "write"
    /\ IF account[op[o].user].present
       THEN /\ account' = [account EXCEPT ![op[o].user] = Changed(o)]
            /\ op' = [op EXCEPT ![o].at = "invalidate"]
       ELSE UNCHANGED account /\ op' = [op EXCEPT ![o] = IdleOp]
    /\ UNCHANGED <<cache, generation, OpVars>>

InvalidateSessionCache(o) ==
    /\ op[o].at = "invalidate"
    /\ generation' = [generation EXCEPT ![op[o].user] = @ + 1]
    /\ cache' = [cache EXCEPT ![op[o].user] = Missing]
    /\ op' = [op EXCEPT ![o] = IdleOp]
    /\ UNCHANGED <<account, OpVars>>

-------------------------------------------------------------------------------
(* isSessionValid *)

Matches(row, token) == row.present /\ row.role = token.role /\ row.tv = token.tv
CheckVars == <<account, tokens, op, login, generation>>

(* Ghost: whether the token is void and no change of its user is under way. *)
Void(token) ==
    /\ ~Matches(account[token.user], token)
    /\ \A o \in Ops : op[o].at # "idle" => op[o].user # token.user

Verdict(row, token, void) ==
    IF Matches(row, token) THEN [at |-> "accepted", void |-> void] ELSE IdleCheck

IsSessionValid(c) ==
    /\ check[c].at \in {"idle", "accepted"}
    /\ \E token \in tokens :
         check' = [check EXCEPT ![c] =
           IF cache[token.user] = Missing
           THEN [at |-> "lookup", token |-> token, void |-> Void(token), row |-> Nothing,
                 generation |-> generation[token.user]]
           ELSE Verdict(cache[token.user], token, Void(token))]
    /\ UNCHANGED <<cache, CheckVars>>

LookupReads(c) ==
    /\ check[c].at = "lookup"
    /\ check' = [check EXCEPT ![c] = [@ EXCEPT !.at = "read", !.row = account[check[c].token.user]]]
    /\ UNCHANGED <<cache, CheckVars>>

(* Mutant: what was read is kept whatever happened meanwhile. *)
KeepAnyway(c) == cache' = [cache EXCEPT ![check[c].token.user] = check[c].row]

(* What was read is kept only if nothing was invalidated since the lookup began. *)
KeepInCache(c) ==
    cache' = IF generation[check[c].token.user] = check[c].generation
             THEN [cache EXCEPT ![check[c].token.user] = check[c].row]
             ELSE cache

LookupEnds(c) ==
    /\ check[c].at = "read"
    /\ KeepInCache(c)
    /\ check' = [check EXCEPT ![c] = Verdict(@.row, @.token, @.void)]
    /\ UNCHANGED CheckVars

(* CACHE_TTL_MS is over. *)
CacheExpires(u) ==
    /\ cache[u] # Missing
    /\ cache' = [cache EXCEPT ![u] = Missing]
    /\ UNCHANGED <<check, CheckVars>>

-------------------------------------------------------------------------------
(* Logins: the user is read, the password compared, the token signed for what *)
(* was read.                                                                  *)

LoginVars == <<account, op, check, cache, generation>>

VerifyCredentials(l) ==
    /\ login[l].at = "idle"
    /\ \E u \in Users :
         /\ account[u].present
         /\ login' = [login EXCEPT ![l] = [at |-> "verify", user |-> u, read |-> account[u]]]
    /\ UNCHANGED <<tokens, LoginVars>>

IssueToken(l) ==
    /\ login[l].at = "verify"
    /\ tokens' = tokens \cup {[user |-> login[l].user, role |-> login[l].read.role,
                               tv |-> login[l].read.tv]}
    /\ login' = [login EXCEPT ![l] = IdleLogin]
    /\ UNCHANGED LoginVars

OpStep(o) ==
    RequireUser(o) \/ AssertNotLastAdmin(o) \/ WriteAccount(o) \/ InvalidateSessionCache(o)
CheckStep(c) == IsSessionValid(c) \/ LookupReads(c) \/ LookupEnds(c)
LoginStep(l) == VerifyCredentials(l) \/ IssueToken(l)

SessionNext ==
    \/ \E o \in Ops : OpStep(o)
    \/ \E c \in Checks : CheckStep(c)
    \/ \E u \in Users : CacheExpires(u)
    \/ \E l \in Logins : LoginStep(l)

SessionSpec == SessionInit /\ [][SessionNext]_sessionVars

-------------------------------------------------------------------------------
(* Properties *)

(***************************************************************************)
(* Once a password change, a sign-out, a change of role or a removal has   *)
(* answered, no request that comes later is let in with a token it         *)
(* revoked, whatever lookups were under way when it ran: "A lookup that    *)
(* started before a revocation must not store what it read, or the revoked *)
(* token would be accepted again" (session.ts).                            *)
(***************************************************************************)
RevokedIsRefused == \A c \in Checks : check[c].at = "accepted" => ~check[c].void

(***************************************************************************)
(* The inductive invariant behind it, as long as changes of one account do *)
(* not overlap: two that have read the same version write the same one,    *)
(* and the next change may bring back a version that was revoked.          *)
(***************************************************************************)
OneChangeAtATime ==
    \A o, p \in Ops : op[o].at # "idle" /\ op[p].at # "idle" /\ op[o].user = op[p].user => o = p

Rows == [present : BOOLEAN, role : Roles, tv : Nat]
TokenSet == [user : Users, role : Roles, tv : Nat]
Changes == [at : {"count", "write", "invalidate"}, kind : Kinds, user : Users, read : Rows]
Lookups == [at : {"lookup", "read"}, token : TokenSet, void : BOOLEAN, row : Rows, generation : Nat]
Accepted == [at : {"accepted"}, void : BOOLEAN]
SessionShape ==
    /\ account \in [Users -> Rows] /\ tokens \subseteq TokenSet
    /\ op \in [Ops -> Changes \union {IdleOp}]
    /\ check \in [Checks -> Lookups \union Accepted \union {IdleCheck}]
    /\ login \in [Logins -> [at : {"verify"}, user : Users, read : Rows] \union {IdleLogin}]
    /\ cache \in [Users -> Rows \union {Missing}] /\ generation \in [Users -> Nat]

(* A change still finds what it read. *)
ReadsAreCurrent ==
    \A o \in Ops : op[o].at \in {"count", "write"} => op[o].read = account[op[o].user]

(* Versions only go up, and each has one role: what was read once and differs from the row
   is of a version before it. *)
OfThePast(role, tv, u) ==
    account[u].present => tv < account[u].tv \/ (tv = account[u].tv /\ role = account[u].role)
TokensAreOfThePast ==
    /\ \A token \in tokens : OfThePast(token.role, token.tv, token.user)
    /\ \A l \in Logins : login[l].at = "verify" =>
          OfThePast(login[l].read.role, login[l].read.tv, login[l].user)

(* What the cache holds, or a lookup would put there, is the row, or is about to be dropped. *)
Invalidating(u) == \E o \in Ops : op[o].at = "invalidate" /\ op[o].user = u
CacheIsCurrent ==
    /\ \A u \in Users : cache[u] \in {Missing, account[u]} \/ Invalidating(u)
    /\ \A c \in Checks : check[c].at \in {"lookup", "read"} =>
          check[c].generation <= generation[check[c].token.user]
    /\ \A c \in Checks :
          check[c].at = "read" /\ check[c].generation = generation[check[c].token.user] =>
              check[c].row = account[check[c].token.user] \/ Invalidating(check[c].token.user)

(* A token that was void when its check began stays so. *)
VoidStaysVoid ==
    \A c \in Checks : check[c].at \in {"lookup", "read"} /\ check[c].void =>
        /\ ~account[check[c].token.user].present
              \/ check[c].token.tv < account[check[c].token.user].tv
        /\ check[c].at = "read" => ~Matches(check[c].row, check[c].token)

SessionInv ==
    /\ SessionShape /\ ReadsAreCurrent /\ TokensAreOfThePast /\ CacheIsCurrent /\ VoidStaysVoid
    /\ RevokedIsRefused

(***************************************************************************)
(* "Cannot remove or demote the last administrator".  Holds for one change *)
(* at a time; violated for two, which count each other's administrator.    *)
(***************************************************************************)
AnAdminRemains == \E u \in Users : account[u].present /\ account[u].role = "ADMIN"

===============================================================================
