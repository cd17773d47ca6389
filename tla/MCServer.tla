-------------------------------- MODULE MCServer --------------------------------
(***************************************************************************)
(* Parts of the server that share no state, and the wizard that drives the *)
(* onboarding.  A behaviour is one of one part: Next moves the part it     *)
(* chose and leaves the others where they began, so that the states of the *)
(* run are the sum and not the product of theirs.  A part that has many    *)
(* initial states holds the value Off while it is not chosen.              *)
(*                                                                         *)
(* The bounds of a part are given where it is instantiated; those of the   *)
(* parts that ServerProofs proves about are constants.                     *)
(***************************************************************************)
EXTENDS Naturals, FiniteSets

CONSTANTS
    None,
    ApiCameras, ApiSites, NoSite, MaxFlags, MaxGrants,
    SessionUsers, SessionOps, SessionChecks, SessionLogins, MaxVersion,
    Recipients, Providers, AlertHandlers, Admins, Alerts, Wanted, Capacity, RefillInterval, Cooldowns,
    PartialUpdates, MaxUpdates, Window,
    Usernames, LoginSlots, MaxPerUser, MaxPerIp, LoginWindow, MaxTime,
    MaxWrites,
    JobHandlers, JobConsumers, Items, MaxAttempts, MaxJobFaults,
    Tasks, ObjectKeys, MaxConcurrent,
    ZoneIds, ZoneRequests, Polygons, Cells, MaxZoneChanges, MaxZoneFaults, MaxZoneBoots,
    Devices, WizardSlots, MaxOpens, MaxPreviews, MaxWizardFaults,
    PtzSlots, PtzTimers, MaxPresets, MaxPtzFaults,
    Accounts, RightsSlots, MaxRightsActs, MaxRightsFaults

VARIABLES
    part,
    role, cameraGrants, siteGrants, siteOf, licence, asked, response,
    account, tokens, op, check, login, sessionCache, generation,
    attempt, failures, guesses, now,
    settings, settingsCache, update, handler, smtp, updates, bucket, sent,
    db, idsGiven, reading, archive, torn, restore, writes,
    job, detections, proc, jobFaults,
    secondary, late, task, activeUploads, primary, remote,
    isOpen, opens, currentStep, discovered, cameraIp, selectedMain, previewPath, isBusy, call,
    paths, nextPath, cameras, lost, wizardFaults,
    rows, memoryZones, cameraZonesCache, request, fresh, doubt, changes, dbFaults, boots,
    moving, saved, ptzCall, watchdog, view, isMoving, presets, isTourActive, tourIndex, ptzFaults,
    accountRole, granted, editorIsOpen, users, selectedUser, permissions, isSaving, rightsCall, whose,
    savedRights, rightsActs, rightsFaults

Routes == INSTANCE ApiAccess WITH
    Cameras <- ApiCameras, Sites <- ApiSites, request <- asked
Entry == INSTANCE Sessions WITH
    Users <- SessionUsers, Ops <- SessionOps, Checks <- SessionChecks, Logins <- SessionLogins,
    cache <- sessionCache
Throttle == INSTANCE LoginThrottle WITH
    Logins <- LoginSlots, Window <- LoginWindow
(* Two parts: the settings and one sort of camera alert, and two sorts of them, by email alone,
   with settings nobody changes. *)
Channels == INSTANCE AlertChannels WITH
    Handlers <- AlertHandlers, rows <- settings, cache <- settingsCache, request <- update
Restores == INSTANCE BackupRestore WITH Names <- Usernames
Jobs == INSTANCE AnalysisJobs WITH
    Handlers <- JobHandlers, Consumers <- JobConsumers, saved <- detections
Offload == INSTANCE TieredStorage WITH Keys <- ObjectKeys
Wizard == INSTANCE OnboardingWizard WITH Slots <- WizardSlots, request <- call

Areas == INSTANCE MotionZones WITH
    Zones <- ZoneIds, Requests <- ZoneRequests, MaxChanges <- MaxZoneChanges,
    MaxDbFaults <- MaxZoneFaults, MaxBoots <- MaxZoneBoots

(* The left half of the frame, a triangle that cuts a corner, and three cells of which they
   have different ones inside. *)
MCPolygons == {<< <<0, 0>>, <<2, 0>>, <<2, 4>>, <<0, 4>> >>, << <<0, 0>>, <<6, 0>>, <<0, 2>> >>}
MCCells == {<<1, 1>>, <<1, 3>>, <<3, 3>>}

(* Two parts: the moves of a camera, and the tour of its presets, which needs no watchdog. *)
Moves == INSTANCE Ptz WITH Slots <- PtzSlots, Timers <- PtzTimers, call <- ptzCall

Rights == INSTANCE UserRights WITH
    Slots <- RightsSlots,
    role <- accountRole, isOpen <- editorIsOpen, call <- rightsCall, saved <- savedRights

(* What the parts take for granted of their constants: names are told apart from the values
   that stand for none of them, and every bound is a number. *)
ASSUME RoutesAssumption == Routes!NoCamera \notin ApiCameras /\ NoSite \notin ApiSites
ASSUME ThrottleAssumption ==
    /\ IsFiniteSet(LoginSlots)
    /\ MaxPerUser \in Nat \ {0} /\ MaxPerIp \in Nat \ {0} /\ LoginWindow \in Nat
    /\ {"ip", "nobody"} \cap Usernames = {}
ASSUME ChannelsAssumption ==
    /\ Capacity \in Nat \ {0} /\ RefillInterval \in Nat \ {0} /\ Cooldowns \subseteq Nat \ {0}
    /\ \E c \in Cooldowns : \A d \in Cooldowns : d <= c
    /\ Window \in Nat /\ \A t \in Cooldowns \union {RefillInterval} : t <= Window + 1
    /\ {"none", "mask", "leftOut"} \cap Providers = {}
ASSUME ZonesAssumption ==
    /\ None \notin Areas!Zone /\ None \notin Areas!Served
    /\ \A polygon \in Polygons, cell \in Cells :
          Areas!IsPointInPolygon(cell, polygon) <=> Areas!Inside(cell, polygon)
ASSUME RestoresAssumption ==
    /\ MaxWrites \in Nat
    /\ \A t \in Restores!Tables : None \notin Restores!Values(t)
    /\ None \notin Restores!Ids
ASSUME JobsAssumption == Items \in Nat
ASSUME OffloadAssumption == IsFiniteSet(Tasks) /\ MaxConcurrent \in Nat \ {0}
ASSUME PtzAssumption == MaxPresets \in Nat /\ None \notin Moves!Calls
ASSUME WizardAssumption == None \notin Wizard!Request
ASSUME RightsAssumption == None \notin Rights!Rights /\ None \notin Rights!SaveCalls

routesVars == <<role, cameraGrants, siteGrants, siteOf, licence, asked, response>>
accountsVars == <<account, tokens, op, check, login, sessionCache, generation>>
throttleVars == <<attempt, failures, guesses, now>>
channelsVars == <<settings, settingsCache, update, handler, smtp, updates, bucket, sent>>
restoresVars == <<db, idsGiven, reading, archive, torn, restore, writes>>
jobsVars == <<job, detections, proc, jobFaults>>
offloadVars == <<secondary, late, task, activeUploads, primary, remote>>
wizardVars == <<isOpen, opens, currentStep, discovered, cameraIp, selectedMain, previewPath, isBusy,
                call, paths, nextPath, cameras, lost, wizardFaults>>
zonesVars == <<rows, memoryZones, cameraZonesCache, request, fresh, doubt, changes, dbFaults, boots>>
ptzVars == <<moving, saved, ptzCall, watchdog, view, isMoving, presets, isTourActive, tourIndex,
             ptzFaults>>
rightsVars == <<accountRole, granted, editorIsOpen, users, selectedUser, permissions, isSaving,
                rightsCall, whose, savedRights, rightsActs, rightsFaults>>
vars == <<part, routesVars, accountsVars, throttleVars, channelsVars, restoresVars, jobsVars,
          offloadVars, wizardVars, zonesVars, ptzVars, rightsVars>>

Parts == {"routes", "accounts", "throttle", "channels", "alerts", "restores", "jobs", "offload",
          "wizard", "zones", "moves", "tours", "rights"}
Off == "off"

RoutesOff ==
    /\ role = Off /\ cameraGrants = Off /\ siteGrants = Off /\ siteOf = Off
    /\ licence = Off /\ asked = Off /\ response = Off
AccountsOff ==
    /\ account = Off /\ tokens = Off /\ op = Off /\ check = Off /\ login = Off
    /\ sessionCache = Off /\ generation = Off
ChannelsOff ==
    /\ settings = Off /\ settingsCache = Off /\ update = Off /\ handler = Off
    /\ smtp = Off /\ updates = Off /\ bucket = Off /\ sent = Off
RestoresOff ==
    /\ db = Off /\ idsGiven = Off /\ reading = Off /\ archive = Off
    /\ torn = Off /\ restore = Off /\ writes = Off
OffloadOff ==
    /\ secondary = Off /\ late = Off /\ task = Off /\ activeUploads = Off
    /\ primary = Off /\ remote = Off

Init ==
    /\ part \in Parts
    /\ IF part = "routes" THEN Routes!AccessInit ELSE RoutesOff
    /\ IF part = "accounts" THEN Entry!SessionInit ELSE AccountsOff
    /\ IF part \in {"channels", "alerts"} THEN Channels!Init ELSE ChannelsOff
    /\ IF part = "restores" THEN Restores!RestoreInit ELSE RestoresOff
    /\ IF part = "offload" THEN Offload!OffloadInit ELSE OffloadOff
    /\ Throttle!ThrottleInit /\ Jobs!JobInit /\ Wizard!WizardInit /\ Areas!ZonesInit
    /\ Moves!PtzInit /\ Rights!RightsInit

Next ==
    /\ UNCHANGED part
    /\ IF part = "routes" THEN Routes!AccessNext ELSE UNCHANGED routesVars
    /\ IF part = "accounts" THEN Entry!SessionNext ELSE UNCHANGED accountsVars
    /\ IF part = "throttle" THEN Throttle!ThrottleNext ELSE UNCHANGED throttleVars
    /\ IF part \in {"channels", "alerts"} THEN Channels!Next ELSE UNCHANGED channelsVars
    /\ IF part = "restores" THEN Restores!RestoreNext ELSE UNCHANGED restoresVars
    /\ IF part = "jobs" THEN Jobs!JobNext ELSE UNCHANGED jobsVars
    /\ IF part = "offload" THEN Offload!OffloadNext ELSE UNCHANGED offloadVars
    /\ IF part = "wizard" THEN Wizard!WizardNext ELSE UNCHANGED wizardVars
    /\ IF part = "zones" THEN Areas!ZonesNext ELSE UNCHANGED zonesVars
    /\ IF part \in {"moves", "tours"} THEN Moves!PtzNext ELSE UNCHANGED ptzVars
    /\ IF part = "rights" THEN Rights!RightsNext ELSE UNCHANGED rightsVars

Spec == Init /\ [][Next]_vars

(* What the run explores of it.  The theorems are about Spec, whatever a part begins with and
   does; here the tour alone has presets from the start, the first name is that of the
   administrator, accounts have no grants yet, and in the other parts there is one operator
   among viewers. *)
BoundedInit ==
    LET first == CHOOSE a \in Accounts : TRUE
    IN  /\ Init
        /\ part = "alerts" => settings = <<>>
        /\ part # "tours" => saved = 0
        /\ part = "restores" => db["user"][1] = CHOOSE name \in Usernames : TRUE
        /\ \A a \in Accounts :
              /\ granted[a] = Rights!NoRights
              /\ accountRole[a] = IF part = "rights" \/ a = first THEN "OPERATOR" ELSE "VIEWER"

(* Settings change beside one sort of camera alert; two sorts of them meet by email alone.  A
   tour needs no watchdog, a move no preset.  Zones meet a refused statement or a restart,
   and a request about rights that fails takes the place of an act. *)
BoundedNext ==
    /\ Next
    /\ part = "channels" => \A h \in AlertHandlers :
          handler'[h].at = "config" => handler'[h].kind # "motion.detected"
    /\ part = "alerts" => updates' = 0 /\ \A h \in AlertHandlers : handler'[h].at # "sending"
    /\ part = "moves" => saved' = 0
    /\ part = "tours" => ptzFaults' = 0 /\ \A t \in PtzTimers : ptzCall'[t] = None
    /\ part = "zones" => boots' + dbFaults' <= 1
    /\ part = "rights" => rightsActs' + rightsFaults' <= MaxRightsActs

BoundedSpec == BoundedInit /\ [][BoundedNext]_vars

(* Who may enter, and what they are shown: ApiAccess, Sessions and LoginThrottle. *)
AccessIsExact ==
    part = "routes" => Routes!AccessIsEarned /\ Routes!ListsAreExact /\ Routes!FeedAgreesWithList
EntryIsGuarded ==
    /\ part = "accounts" => Entry!RevokedIsRefused
    /\ Throttle!GuessesAreBounded

(* What is sent: AlertChannels. *)
LimiterIsExact ==
    part \in {"channels", "alerts"} => Channels!AlertsAreBounded /\ Channels!SuppressionIsJustified
CredentialsAreKept == part \in {"channels", "alerts"} => Channels!CredentialsAreKept

(* What is kept and restored: BackupRestore, AnalysisJobs, TieredStorage. *)
RestoreAnswered == [][part = "restores" => Restores!AnswerOfRestore]_vars
CompletedIsAnalysed == Jobs!CompletedIsAnalysed
UploadsFillTheirSlots == part = "offload" => Offload!UploadsFillTheirSlots

(* What is granted: UserRights. *)
SavesAreWhole == Rights!SavesAreWhole

(* What is done to a camera: OnboardingWizard, MotionZones, Ptz. *)
OneCameraPerOpening == Wizard!OneCameraPerOpening
ZonesAreApplied == Areas!VerdictsFollowTheTable /\ Areas!FilterIsCurrent
MovesAreWatched == Moves!MovesAreWatched
================================================================================
