----------------------------- MODULE AlertChannels -----------------------------
(***************************************************************************)
(* The channels that alert people: WhatsApp/SMS                            *)
(* (notifications/notification-dispatcher.service.ts) and email            *)
(* (smtp-dispatcher.service.ts), the policy both follow (alert-policy.ts)  *)
(* and the rate limiter they share (token-bucket-rate-limiter.ts).         *)
(*                                                                         *)
(* The settings of WhatsApp are a database row that every handler reads    *)
(* anew; the credentials are taken from the last row anyone read.  Events, *)
(* requests of administrators and answers of the provider interleave at    *)
(* the awaits.  Time is counted in units of the shortest cooldown.         *)
(***************************************************************************)
EXTENDS Naturals, Sequences, FiniteSets, FiniteSetsExt

CONSTANTS
    Recipients,         \* the number of recipientPhones
    Providers,          \* the providers administrators choose from
    Handlers,           \* bound: the events WhatsApp handles at a time
    Admins,             \* bound: the updates of the settings at a time
    Alerts,             \* the sorts of events on the bus
    Wanted,             \* the events both channels are configured for
    Capacity,           \* of a token bucket
    RefillInterval,     \* refillIntervalMs
    Cooldowns,          \* the cooldowns administrators choose from, at least 1
    PartialUpdates,     \* whether an update may leave the credentials out
    MaxUpdates,         \* bound on the updates of settings
    Window              \* bound: how far back the history of alerts goes

(* Two camera alerts, one of them also covered by a site outage, and the site alerts. *)
Kinds == {"motion.detected", "camera.offline", "covered.camera.offline", "site.offline", "site.online"}
CameraTypes == {"motion.detected", "camera.offline"}

VARIABLES
    rows,       \* the rows of the settings of WhatsApp, oldest first
    cache,      \* activeConfigCache
    request,    \* an update of the settings by each administrator
    handler,    \* the handling of an event by WhatsApp
    smtp,       \* the settings of email
    updates,
    bucket,     \* the buckets of the limiter
    sent        \* history: how long ago the limiter let an alert of a key pass

settingsVars == <<rows, cache, request, smtp, updates>>
limiterVars == <<bucket, sent>>
vars == <<rows, cache, request, handler, smtp, updates, bucket, sent>>

Channels == {"whatsapp", "smtp"}
Keys == Channels \X (CameraTypes \cup {"site.offline", "site.online"})

(* Credentials are those of a provider; "mask" is what the API shows in their place. *)
Configs == [provider : Providers, credentials : Providers \cup {"none", "mask"},
            cooldown : Cooldowns, enabled : BOOLEAN]
(* Without a row the provider is a mock that answers every message. *)
Default == [provider |-> "mock", credentials |-> "none", cooldown |-> Max(Cooldowns),
            enabled |-> TRUE]
SmtpConfigs == [cooldown : Cooldowns, enabled : BOOLEAN]

Idle == [at |-> "idle"]
Buckets == [tokens : 0..Capacity, sinceRefill : Nat, sinceAcquired : Nat]
NoBucket == [tokens |-> Capacity + 1]

TypeOK ==
    /\ rows \in Seq(Configs) /\ cache \in Configs \cup {Default}
    /\ \A a \in Admins : request[a].at \in {"idle", "find", "update", "create"}
    /\ \A h \in Handlers :
        /\ handler[h].at \in {"idle", "config", "sending"}
        /\ handler[h].at = "sending" => handler[h].left \in 1..Recipients
    /\ smtp \in SmtpConfigs
    /\ updates \in 0..MaxUpdates
    /\ \A k \in Keys : bucket[k] \in Buckets \cup {NoBucket}
    /\ \A k \in Keys : sent[k] \subseteq 0..Window

Init ==
    /\ rows \in {<<>>} \cup {<<c>> : c \in {d \in Configs : d.credentials = d.provider /\ d.enabled}}
    /\ cache = IF rows = <<>> THEN Default ELSE rows[1]
    /\ request = [a \in Admins |-> Idle]
    /\ handler = [h \in Handlers |-> Idle]
    /\ smtp \in {c \in SmtpConfigs : c.enabled}
    /\ updates = 0
    /\ bucket = [k \in Keys |-> NoBucket]
    /\ sent = [k \in Keys |-> {}]

-------------------------------------------------------------------------------
(* The rate limiter *)

MaxCooldown == Max(Cooldowns)

(* Mutant: the time of the refill is not moved on. *)
RefilledAgain(b) ==
    [b EXCEPT !.tokens = Min({Capacity, @ + b.sinceRefill \div RefillInterval})]

(* Whole intervals since the last refill become tokens, the remainder is kept. *)
Refilled(b) ==
    [b EXCEPT !.tokens = Min({Capacity, @ + b.sinceRefill \div RefillInterval}),
              !.sinceRefill = @ % RefillInterval]

Allowed(b, cooldown) ==
    b = NoBucket \/ (b.sinceAcquired >= cooldown /\ Refilled(b).tokens >= 1)

Acquired(b) ==
    IF b = NoBucket
    THEN [tokens |-> Capacity - 1, sinceRefill |-> 0, sinceAcquired |-> 0]
    ELSE [Refilled(b) EXCEPT !.tokens = @ - 1, !.sinceAcquired = 0]

(* tryAcquire: allowed says what it answers.  A refusal leaves the bucket as good as it
   was: one that refuses for want of a token had no whole interval to refill. *)
TryAcquire(key, cooldown, allowed) ==
    /\ allowed = Allowed(bucket[key], cooldown)
    /\ bucket' = IF allowed THEN [bucket EXCEPT ![key] = Acquired(@)] ELSE bucket
    /\ sent' = IF allowed THEN [sent EXCEPT ![key] = @ \cup {0}] ELSE sent

(* The clock, which is taken to go forward only: a wall clock that is set back makes both
   intervals negative and refuses alerts until it has caught up.  More than Capacity intervals fill the bucket like Capacity ones do, so
   further time counts by its remainder only; a cooldown is over when it is over. *)
OlderBucket(b) ==
    IF b = NoBucket THEN b
    ELSE [b EXCEPT !.sinceRefill = IF @ + 1 = (Capacity + 1) * RefillInterval
                                   THEN Capacity * RefillInterval ELSE @ + 1,
                   !.sinceAcquired = Min({MaxCooldown, @ + 1})]
Tick ==
    /\ bucket' = [k \in Keys |-> OlderBucket(bucket[k])]
    /\ sent' = [k \in Keys |-> {a + 1 : a \in sent[k]} \cap 0..Window]
    /\ UNCHANGED <<settingsVars, handler>>

-------------------------------------------------------------------------------
(* The policy *)

TypeOf(kind) == IF kind = "covered.camera.offline" THEN "camera.offline" ELSE kind
IsCovered(kind) == kind = "covered.camera.offline"

(* Site alerts replace camera.offline, so whoever wants that one gets them too. *)
ChannelWants(kind) ==
    \/ TypeOf(kind) \in Wanted
    \/ kind \in {"site.offline", "site.online"} /\ "camera.offline" \in Wanted

Alert(kind) == ~ IsCovered(kind) /\ ChannelWants(kind)
CooldownKey(channel, kind) == <<channel, TypeOf(kind)>>

-------------------------------------------------------------------------------
(* Events *)

(* getConfig: the newest row, which also becomes the cache. *)
CurrentConfig == IF rows = <<>> THEN Default ELSE rows[Len(rows)]

(* The email is handed over in the step that decides to send it; what becomes of it is
   not looked at. *)
SmtpHandle(kind) ==
    IF smtp.enabled /\ Alert(kind)
    THEN \E allowed \in BOOLEAN : TryAcquire(CooldownKey("smtp", kind), smtp.cooldown, allowed)
    ELSE UNCHANGED limiterVars

(* An event on the bus: email acts on it, WhatsApp begins to read its settings. *)
Broadcast(h, kind) ==
    /\ handler[h].at = "idle"
    /\ handler' = [handler EXCEPT ![h] = [at |-> "config", kind |-> kind]]
    /\ SmtpHandle(kind)
    /\ UNCHANGED settingsVars

(* The settings arrive: the alert is dropped, or its first message goes out. *)
HandleEvent(h) ==
    LET config == CurrentConfig
        kind == handler[h].kind
        wanted == config.enabled /\ Alert(kind)
        sending == [at |-> "sending", provider |-> config.provider, left |-> Recipients,
                    whole |-> config.credentials = config.provider]
    IN  /\ handler[h].at = "config"
        /\ cache' = config
        /\ \/ /\ wanted
              /\ TryAcquire(CooldownKey("whatsapp", kind), config.cooldown, TRUE)
              /\ handler' = [handler EXCEPT ![h] = sending]
           \/ /\ wanted
              /\ TryAcquire(CooldownKey("whatsapp", kind), config.cooldown, FALSE)
              /\ handler' = [handler EXCEPT ![h] = Idle]
           \/ /\ ~ wanted
              /\ handler' = [handler EXCEPT ![h] = Idle]
              /\ UNCHANGED limiterVars
        /\ UNCHANGED <<rows, request, smtp, updates>>

(* The settings cannot be read: the listener swallows the exception, and the alert. *)
HandleEventFails(h) ==
    /\ handler[h].at = "config"
    /\ handler' = [handler EXCEPT ![h] = Idle]
    /\ UNCHANGED <<settingsVars, limiterVars>>

(* The provider answers, well or not, or the credentials of the moment are not those of
   the provider and nothing was sent: the next phone's turn comes all the same. *)
SendEnds(h) ==
    /\ handler[h].at = "sending"
    /\ handler' = [handler EXCEPT ![h] = IF @.left = 1 THEN Idle ELSE [@ EXCEPT !.left = @ - 1]]
    /\ UNCHANGED <<settingsVars, limiterVars>>

-------------------------------------------------------------------------------
(* Settings *)

(* Mutant: what is sent is stored. *)
NewCredentialsAsSent(stored, input) == IF input = "leftOut" THEN stored ELSE input

(* Masked credentials that come back stand for the ones in the cache, which updateConfig
   has just read.  Credentials that are left out are those of the answer of getConfig. *)
Masked(credentials) == IF credentials = "none" THEN "none" ELSE "mask"
NewCredentials(stored, input) ==
    CASE input = "leftOut" -> Masked(stored)
      [] input = "mask" -> stored
      [] OTHER -> input

(* What an update may send: credentials of its provider, none, the mask that was shown. *)
CredentialInputs(provider) ==
    {provider, "none", "mask"} \cup IF PartialUpdates THEN {"leftOut"} ELSE {}

UpdateRead(a, provider, cooldown, enabled, input) ==
    LET existing == CurrentConfig
    IN  /\ request[a].at = "idle" /\ updates < MaxUpdates
        /\ input \in CredentialInputs(provider)
        /\ input = "mask" => existing.credentials # "none"
        /\ cache' = existing
        /\ request' = [request EXCEPT ![a] =
               [at |-> "find",
                config |-> [provider |-> provider, cooldown |-> cooldown, enabled |-> enabled,
                            credentials |-> NewCredentials(existing.credentials, input)]]]
        /\ updates' = updates + 1
        /\ UNCHANGED <<rows, handler, smtp, limiterVars>>

(* findFirst: some row, if there is one. *)
UpdateFind(a) ==
    /\ request[a].at = "find"
    /\ \/ /\ rows = <<>>
          /\ request' = [request EXCEPT ![a].at = "create"]
       \/ \E i \in DOMAIN rows :
              request' = [request EXCEPT ![a] = [at |-> "update", row |-> i, config |-> @.config]]
    /\ UNCHANGED <<rows, cache, handler, smtp, updates, limiterVars>>

UpdateWrite(a) ==
    /\ request[a].at \in {"update", "create"}
    /\ rows' = IF request[a].at = "create" THEN Append(rows, request[a].config)
               ELSE [rows EXCEPT ![request[a].row] = request[a].config]
    /\ cache' = request[a].config
    /\ request' = [request EXCEPT ![a] = Idle]
    /\ UNCHANGED <<handler, smtp, updates, limiterVars>>

(* The database rejects a read or the write: the request fails, and the rows stay. *)
UpdateFails(a) ==
    /\ request[a].at # "idle"
    /\ request' = [request EXCEPT ![a] = Idle]
    /\ UNCHANGED <<rows, cache, handler, smtp, updates, limiterVars>>

(* The settings of email are changed in one step. *)
SmtpUpdate(config) ==
    /\ updates < MaxUpdates
    /\ updates' = updates + 1
    /\ smtp' = config
    /\ UNCHANGED <<rows, cache, request, handler, limiterVars>>

(* A test alert reads the settings, and so does the settings page. *)
GetConfig ==
    /\ cache' = CurrentConfig
    /\ UNCHANGED <<rows, request, handler, smtp, updates, limiterVars>>

-------------------------------------------------------------------------------

Next ==
    \/ Tick
    \/ \E h \in Handlers, kind \in Alerts : Broadcast(h, kind)
    \/ \E h \in Handlers : HandleEvent(h) \/ HandleEventFails(h) \/ SendEnds(h)
    \/ \E a \in Admins, p \in Providers, c \in Cooldowns, e \in BOOLEAN,
          input \in Providers \cup {"none", "mask", "leftOut"} : UpdateRead(a, p, c, e, input)
    \/ \E a \in Admins : UpdateFind(a) \/ UpdateWrite(a) \/ UpdateFails(a)
    \/ \E c \in SmtpConfigs : SmtpUpdate(c)
    \/ GetConfig

Spec == Init /\ [][Next]_vars

-------------------------------------------------------------------------------
(* Properties *)

(* Nobody is flooded with one sort of alert: whatever cooldowns are set meanwhile, the alerts
   of one channel about one subject and of one type that pass within any span are at most
   the capacity of the bucket plus one for every interval begun in it.  Every type has a
   bucket of its own; of the types of one camera together see CameraBurstIsLimited. *)
AlertsAreBounded ==
    \A k \in Keys, span \in 0..Window :
        Cardinality({a \in sent[k] : a <= span})
            <= Capacity + (span + RefillInterval - 1) \div RefillInterval

(* Nobody is left in the dark: an alert is refused only when the same channel let one of
   the same type about the same subject pass less than a cooldown or a refill ago. *)
SuppressionIsJustified ==
    \A k \in Keys, cooldown \in Cooldowns :
        ~ Allowed(bucket[k], cooldown)
            => \E a \in sent[k] : a < Max({cooldown, RefillInterval})

(* No mask is ever stored in the place of credentials ("Protects existing secrets from
   being overwritten if masked placeholder submitted", updateConfig). *)
CredentialsAreKept == \A i \in DOMAIN rows : rows[i].credentials # "mask"

(* The inductive invariants behind them.  What a bucket is worth in units of time, its tokens
   and what is left of an interval, pays for the alerts of every span up to now; the last
   alert is in the history for as long as a cooldown or an empty bucket may refuse one. *)
Credit(b) == Refilled(b).tokens * RefillInterval + Refilled(b).sinceRefill
Within(k, span) == {a \in sent[k] : a <= span}

HistoryIsPaid ==
    \A k \in Keys, span \in 0..Window :
        IF bucket[k] = NoBucket THEN sent[k] = {}
        ELSE Cardinality(Within(k, span)) * RefillInterval + Credit(bucket[k])
                 < (Capacity + 1) * RefillInterval + span

LastIsRemembered ==
    \A k \in Keys : bucket[k] # NoBucket =>
        /\ bucket[k].sinceAcquired < MaxCooldown => bucket[k].sinceAcquired \in sent[k]
        /\ bucket[k].sinceRefill < RefillInterval =>
              \E a \in sent[k] : a <= bucket[k].sinceRefill

LimiterInv ==
    /\ bucket \in [Keys -> Buckets \cup {NoBucket}] /\ sent \in [Keys -> SUBSET (0..Window)]
    /\ HistoryIsPaid /\ LastIsRemembered

(* No mask is stored, nor on its way to be. *)
Unmasked == {c \in Configs : c.credentials # "mask"}
CredentialsInv ==
    /\ rows \in Seq(Unmasked)
    /\ request \in [Admins -> [at : {"find", "create"}, config : Unmasked] \cup {Idle}
                                \cup [at : {"update"}, row : Nat, config : Unmasked]]

(* What does not hold.  The comment on the limiter (token-bucket-rate-limiter.ts:7-8) has one
   bucket limit the "burst alerts across different event types on the same camera". *)
CameraBurstIsLimited ==
    \A c \in Channels, span \in 0..Window :
        Cardinality({p \in CameraTypes \X (0..span) : p[2] \in sent[<<c, p[1]>>]})
            <= Capacity + (span + RefillInterval - 1) \div RefillInterval

(* A channel whose last word about the site was that it is back would
   not refuse to say that it is down again. *)
LastSiteAlert(channel, type, other) ==
    \E a \in sent[<<channel, type>>] : \A b \in sent[<<channel, other>>] : a <= b
SecondOutageIsTold ==
    LastSiteAlert("smtp", "site.online", "site.offline")
        => Allowed(bucket[<<"smtp", "site.offline">>], smtp.cooldown)

(* A message of an alert that began with the credentials of its provider is not sent with
   those of another one, which the dispatcher refuses. *)
MessagesUseTheirProvider ==
    \A h \in Handlers :
        handler[h].at = "sending" /\ handler[h].left > 1 /\ handler[h].whole
            => cache.credentials = handler[h].provider

(* The settings are one row. *)
SettingsAreOneRow == Len(rows) <= 1
=================================================================================
