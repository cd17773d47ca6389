----------------------------- MODULE LoginThrottle -----------------------------
(***************************************************************************)
(* The throttle of POST /api/auth/login (users/login-throttle.ts): failed  *)
(* logins from one address, counted for the address and for each username. *)
(* It is asked before the password is compared and told after it, and      *)
(* logins run side by side.                                                *)
(***************************************************************************)
EXTENDS Naturals, FiniteSets

CONSTANTS
    Usernames,
    Logins,                         \* logins at a time
    MaxPerUser, MaxPerIp, Window,
    MaxTime                         \* bound: the clock

VARIABLES
    attempt,    \* the username each login verifies
    failures,   \* count and windowStart, by key
    guesses,    \* failures of each username in the current window of its key
    now

throttleVars == <<attempt, failures, guesses, now>>

Ip == "ip"
Keys == Usernames \cup {Ip}
Nobody == "nobody"
NoEntry == [count |-> 0, windowStart |-> 0]
MaxOf(k) == IF k = Ip THEN MaxPerIp ELSE MaxPerUser

ThrottleInit ==
    /\ attempt = [l \in Logins |-> Nobody]
    /\ failures = [k \in Keys |-> NoEntry]
    /\ guesses = [u \in Usernames |-> 0]
    /\ now = 0

(* Mutant: one failure more than the maximum is let pass. *)
BlockedLate(u) ==
    LET full(k) == failures[k].count > MaxOf(k)
        left(k) == failures[k].windowStart + Window > now
    IN  IF full(u) THEN left(u) ELSE full(Ip) /\ left(Ip)

(* retryAfterSeconds answers for the first key that is at its maximum; that    *)
(* the window of the key is over gives zero or less, which blocks nothing.     *)
Blocked(u) ==
    LET full(k) == failures[k].count >= MaxOf(k)
        left(k) == failures[k].windowStart + Window > now
    IN  IF full(u) THEN left(u) ELSE full(Ip) /\ left(Ip)

AskThrottle(l) ==
    /\ attempt[l] = Nobody
    /\ \E u \in Usernames : ~Blocked(u) /\ attempt' = [attempt EXCEPT ![l] = u]
    /\ UNCHANGED <<failures, guesses, now>>

Over(f) == f.count = 0 \/ now - f.windowStart >= Window
Counted(f) ==
    IF Over(f) THEN [count |-> 1, windowStart |-> now] ELSE [f EXCEPT !.count = @ + 1]

RecordFailure(l) ==
    /\ attempt[l] # Nobody
    /\ LET u == attempt[l] IN
         /\ failures' = [failures EXCEPT ![u] = Counted(@), ![Ip] = Counted(@)]
         /\ guesses' = [guesses EXCEPT ![u] = IF Over(failures[u]) THEN 1 ELSE @ + 1]
    /\ attempt' = [attempt EXCEPT ![l] = Nobody]
    /\ UNCHANGED now

RecordSuccess(l) ==
    /\ attempt[l] # Nobody
    /\ failures' = [failures EXCEPT ![attempt[l]] = NoEntry]
    /\ guesses' = [guesses EXCEPT ![attempt[l]] = 0]
    /\ attempt' = [attempt EXCEPT ![l] = Nobody]
    /\ UNCHANGED now

ThrottleTick ==
    /\ now < MaxTime
    /\ now' = now + 1
    /\ UNCHANGED <<attempt, failures, guesses>>

LoginStep(l) == AskThrottle(l) \/ RecordFailure(l) \/ RecordSuccess(l)

ThrottleNext == ThrottleTick \/ \E l \in Logins : LoginStep(l)

ThrottleSpec == ThrottleInit /\ [][ThrottleNext]_throttleVars

-------------------------------------------------------------------------------
(* Properties *)

(***************************************************************************)
(* In one window a username is guessed at most MaxPerUser times, and by as *)
(* many logins more as were under way when the last of them failed:        *)
(* retryAfterSeconds is asked before the password is compared, and         *)
(* recordFailure is told only after it.                                    *)
(***************************************************************************)
GuessesAreBounded == \A u \in Usernames : guesses[u] <= MaxPerUser + Cardinality(Logins) - 1

(***************************************************************************)
(* The inductive invariant behind it: a guess is a counted failure, and    *)
(* while the window of a username is open those that failed and those      *)
(* that are under way are together within the bound.  Nobody joins them    *)
(* once the count is full, and a new window starts with one failure.       *)
(***************************************************************************)
ThrottleTypeOK ==
    /\ attempt \in [Logins -> Usernames \cup {Nobody}]
    /\ failures \in [Keys -> [count : Nat, windowStart : Nat]]
    /\ guesses \in [Usernames -> Nat]
    /\ now \in Nat

UnderWay(u) == {l \in Logins : attempt[l] = u}
WindowsAreBounded ==
    \A u \in Usernames :
        /\ guesses[u] = failures[u].count
        /\ ~Over(failures[u]) =>
              guesses[u] + Cardinality(UnderWay(u)) <= MaxPerUser + Cardinality(Logins) - 1

ThrottleInv == ThrottleTypeOK /\ WindowsAreBounded /\ GuessesAreBounded

===============================================================================
