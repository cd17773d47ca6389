------------------------------- MODULE ApiAccess -------------------------------
(***************************************************************************)
(* Who gets what from the HTTP API: the routes with their guards           *)
(* (rbac.guard.ts, licensing/plugin.ts, camera-scope.ts), what each        *)
(* handler gives or changes, and the rules of the Camera Scope.  Grants,   *)
(* the licence and the sites of the cameras change between requests.       *)
(*                                                                         *)
(* A route says who may call it (gate), how it reaches camera data         *)
(* (access) and what a handler that gets through does (use).  Bodies,      *)
(* answers and the services behind the handlers are other modules'.        *)
(***************************************************************************)
EXTENDS Naturals, FiniteSets

CONSTANTS
    Cameras, Sites, NoSite,
    MaxFlags,       \* how many flags one grant carries at most
    MaxGrants       \* how many cameras, and how many sites, are granted at most

VARIABLES
    role,           \* of the user who asks
    cameraGrants,   \* CameraPermission of the user: flags per camera
    siteGrants,     \* SitePermission of the user: flags per site
    siteOf,         \* siteId of each camera
    licence,        \* "core" (evaluation, too), "extended", "expired"
    request, response

accessVars == <<role, cameraGrants, siteGrants, siteOf, licence, request, response>>

Roles == {"ADMIN", "OPERATOR", "VIEWER"}
Flags == {"canViewLive", "canViewPlayback", "canControlPtz", "canExportClips"}
Rights == Flags \cup {"view"}
Unknown == "unknown"            \* the id of no camera
NoCamera == "none"              \* no id, or a resource that does not exist

-------------------------------------------------------------------------------
(* Capabilities of the licence, and the gate in front of a handler *)

CoreCapabilities == {"core.email_alerts", "camera_health"}
ExtendedCapabilities ==
    CoreCapabilities \cup
    {"operator_role", "motion_zones", "ptz", "clip_export", "bookmarks",
     "whatsapp_alerts", "api_webhooks"}

HasCapability(c) ==
    c = "none" \/ c \in CASE licence = "core" -> CoreCapabilities
                          [] licence = "extended" -> ExtendedCapabilities
                          [] licence = "expired" -> {}

Gate(auth, roles, capability) == [auth |-> auth, roles |-> roles, capability |-> capability]
Open == Gate("open", Roles, "none")
Session(capability) == Gate("session", Roles, capability)
Admin(capability) == Gate("session", {"ADMIN"}, capability)
Staff(capability) == Gate("session", {"ADMIN", "OPERATOR"}, capability)
MediaGate(cookie) == Gate(IF cookie THEN "cookie" ELSE "session", Roles, "none")

(* authenticate, requireRole, requireCapability, in this order. *)
GateStatus(gate, r) ==
    IF gate.auth = "open" THEN "pass"
    ELSE IF r.credential = "none" \/ (r.credential = "cookie" /\ gate.auth # "cookie") THEN "401"
    ELSE IF role \notin gate.roles \/ ~HasCapability(gate.capability) THEN "403"
    ELSE "pass"

-------------------------------------------------------------------------------
(* Camera Scope *)

(* effectiveGrants: of the camera, and of the site the camera is at now. *)
EffectiveGrants(c) ==
    cameraGrants[c] \cup IF siteOf[c] \in Sites THEN siteGrants[siteOf[c]] ELSE {}

RightsOn(c) ==
    CASE role = "ADMIN" -> Flags
      [] role = "VIEWER" -> {"canViewLive", "canViewPlayback"}
      [] role = "OPERATOR" -> IF c \in Cameras THEN EffectiveGrants(c) ELSE {}

ScopeCan(c, right) ==
    IF right = "view" THEN RightsOn(c) \cap {"canViewLive", "canViewPlayback"} # {}
    ELSE right \in RightsOn(c)

(* cameraIds: everything for who has the right on every camera. *)
ScopeCameras(right) == {c \in Cameras : ScopeCan(c, right)}
Unrestricted(right) == role # "OPERATOR" /\ ScopeCan(Unknown, right)

Free == [kind |-> "none", right |-> "view"]
ByCamera(right) == [kind |-> "camera", right |-> right]
ByResource(right) == [kind |-> "resource", right |-> right]
Listing(right) == [kind |-> "list", right |-> right]
ByStream(right) == [kind |-> "stream", right |-> right]

(* Mutant: the right is asked for the camera of the query, not for the owner. *)
EnforceNamed(access, r) ==
    CASE access.kind \in {"none", "list"} -> "pass"
      [] access.kind = "stream" /\ ~r.valid -> "400"
      [] access.kind = "stream" /\ r.valid /\ r.owner = "preview" ->
           IF role = "ADMIN" THEN "pass" ELSE "403"
      [] OTHER -> IF ScopeCan(r.named, access.right) THEN "pass" ELSE "403"

(* enforceCameraAccess; a stream path belongs to a camera, to nobody, or is a *)
(* preview of an onboarding, which only administrators see.                   *)
EnforceStatus(access, r) ==
    CASE access.kind \in {"none", "list"} -> "pass"
      [] access.kind = "camera" ->
           IF r.named = NoCamera THEN "400"
           ELSE IF ScopeCan(r.named, access.right) THEN "pass" ELSE "403"
      [] access.kind = "resource" ->
           IF r.owner = NoCamera THEN "404"
           ELSE IF ScopeCan(r.owner, access.right) THEN "pass" ELSE "403"
      [] access.kind = "stream" ->
           IF ~r.valid THEN "400"
           ELSE IF r.owner = "preview" THEN IF role = "ADMIN" THEN "pass" ELSE "403"
           ELSE IF r.owner # NoCamera /\ ScopeCan(r.owner, access.right)
           THEN "pass" ELSE "403"

-------------------------------------------------------------------------------
(* What handlers do: read or change something, of the camera that is named,   *)
(* of the owner of the resource, of both when they must agree, of the cameras *)
(* in scope, of the caller's own account, or of the appliance.                *)

Use(what, of) == [what |-> what, of |-> of]
Appliance == Use("appliance", "nothing")
Config == Use("config", "nothing")
Account == Use("account", "self")

Route(name, gate, access, use) ==
    [name |-> name, gate |-> gate, access |-> access, use |-> use]

OnboardingRoutes == {
    Route("POST cameras/discover", Admin("none"), Free, Config),
    Route("POST cameras/probe-network", Admin("none"), Free, Config),
    Route("POST cameras/probe-auth", Admin("none"), Free, Config),
    Route("POST cameras/provision-preview", Admin("none"), Free, Config),
    Route("POST cameras/teardown-preview", Admin("none"), Free, Config)}

CommitRoutes == {
    Route("POST cameras/commit", Admin("none"), Free, Config),
    Route("POST cameras", Admin("none"), Free, Config)}

CameraRoutes == {
    Route("GET cameras", Session("none"), Listing("view"), Use("view", "visible")),
    Route("GET cameras/:id", Session("none"), ByCamera("view"), Use("view", "named")),
    Route("PATCH cameras/:id", Admin("none"), Free, Config),
    Route("DELETE cameras/:id", Admin("none"), Free, Config)}

PtzRoutes ==
    {Route(n, Session("ptz"), ByCamera("canControlPtz"), Use("canControlPtz", "named")) :
       n \in {"POST ptz/move", "POST ptz/stop", "GET ptz/presets", "POST ptz/presets/goto"}}
    \cup {Route(n, Admin("ptz"), Free, Config) :
            n \in {"POST ptz/presets", "DELETE ptz/presets/:token"}}

StorageRoutes == {
    Route("GET recordings/storage", Session("none"), Free, Appliance),
    Route("POST recordings/storage/cleanup", Admin("none"), Free, Config),
    Route("GET recordings/schedules/:cameraId", Session("none"), ByCamera("view"), Use("view", "named")),
    Route("POST recordings/schedules/:cameraId", Admin("none"), Free, Config)}

RecordingRoutes == {
    Route("GET recordings", Session("none"), Listing("canViewPlayback"), Use("canViewPlayback", "filtered")),
    Route("GET recordings/motion-buffer", Session("none"), Listing("view"), Use("view", "filtered")),
    Route("GET recordings/:id", Session("none"), ByResource("canViewPlayback"), Use("canViewPlayback", "owner"))}

ExportRoutes == {
    Route("POST export", Session("clip_export"), ByCamera("canExportClips"), Use("canExportClips", "named")),
    Route("GET export/:id", Session("clip_export"), ByResource("canViewPlayback"), Use("canViewPlayback", "owner")),
    Route("GET export/:id/download", Session("clip_export"), ByResource("canExportClips"), Use("canExportClips", "owner")),
    Route("GET export/:id/bundle", Session("clip_export"), ByResource("canExportClips"), Use("canExportClips", "owner"))}

BookmarkRoutes == {
    Route("GET bookmarks", Session("bookmarks"), ByCamera("canViewPlayback"), Use("canViewPlayback", "named")),
    Route("POST bookmarks", Session("bookmarks"), ByCamera("canViewPlayback"), Use("canViewPlayback", "named")),
    Route("DELETE bookmarks/:id", Staff("bookmarks"), ByCamera("canViewPlayback"), Use("canViewPlayback", "match"))}

ZoneRoutes == {
    Route("GET zones", Session("motion_zones"), ByCamera("view"), Use("view", "named")),
    Route("POST zones", Admin("motion_zones"), Free, Config),
    Route("PUT zones/:zoneId", Admin("motion_zones"), Free, Config),
    Route("DELETE zones/:zoneId", Admin("motion_zones"), Free, Config),
    Route("POST zones/test", Session("motion_zones"), ByCamera("canViewLive"), Use("canViewLive", "named"))}

HealthRoutes == {
    Route("GET cameras/health", Staff("camera_health"), Listing("view"), Use("view", "visible")),
    Route("GET cameras/:id/health", Staff("camera_health"), ByCamera("view"), Use("view", "named"))}

WhatsAppRoutes ==
    {Route(n, Admin("whatsapp_alerts"), Free, Config) :
       n \in {"GET notifications/settings", "PUT notifications/settings", "POST notifications/test"}}

SmtpRoutes ==
    {Route("GET notifications/smtp", Staff("core.email_alerts"), Free, Appliance)}
    \cup {Route(n, Admin("core.email_alerts"), Free, Config) :
            n \in {"PUT notifications/smtp", "POST notifications/smtp/test"}}

WebhookRoutes ==
    {Route(n, Admin("api_webhooks"), Free, Config) :
       n \in {"GET webhooks", "POST webhooks", "PUT webhooks/:id", "DELETE webhooks/:id",
              "POST webhooks/:id/test"}}

StreamingRoutes == {
    Route("GET streaming/config", Session("none"), Listing("canViewLive"), Use("canViewLive", "visible")),
    Route("GET streaming/ice-servers", Session("none"), Free, Appliance),
    Route("GET streaming/cameras/:id", Session("none"), ByCamera("canViewLive"), Use("canViewLive", "named"))}

PlaybackRoutes == {
    Route("GET playback/timeline", Session("none"), ByCamera("canViewPlayback"), Use("canViewPlayback", "named")),
    Route("GET playback/stream", Session("none"), ByCamera("canViewPlayback"), Use("canViewPlayback", "named"))}

MediaRoutes ==
    {Route(n, MediaGate(FALSE), ByStream("canViewLive"), Use("canViewLive", "owner")) :
       n \in {"POST whep", "PATCH whep/:session", "DELETE whep/:session"}}
    \cup {Route("GET hls", MediaGate(TRUE), ByStream("canViewLive"), Use("canViewLive", "owner")),
          Route("GET playback/get", MediaGate(TRUE), ByStream("canViewPlayback"), Use("canViewPlayback", "owner"))}

(* The schedules are settings here, which every session reads; the sibling    *)
(* under recordings asks for the right to see the camera.                     *)
SettingsRoutes ==
    {Route(n, Session("none"), Free, Appliance) :
       n \in {"GET settings/operational", "GET settings/schedule/:cameraId"}}
    \cup {Route(n, Admin("none"), Free, Config) :
            n \in {"PUT settings/operational", "PUT settings/schedule/:cameraId", "POST settings/storage/purge"}}

SystemRoutes == {
    Route("GET system/dashboard", Session("none"), Listing("view"), Use("view", "visible")),
    Route("GET system/ntp-status", Session("none"), Free, Appliance),
    Route("GET system/storage/drives", Session("none"), Free, Appliance),
    Route("GET system/storage/removable", Session("none"), Free, Appliance),
    Route("GET system/setup-status", Open, Free, Appliance),
    Route("POST system/setup-complete", Admin("none"), Free, Config),
    Route("POST system/shutdown", Admin("none"), Free, Config),
    Route("GET system/handoff-report", Admin("none"), Free, Config)}

BackupRoutes ==
    {Route(n, Admin("none"), Free, Config) :
       n \in {"POST system/backup", "GET system/backups", "GET system/backups/:name", "POST system/restore"}}

AuditRoutes == {
    Route("GET audit/logs", Admin("none"), Free, Config),
    Route("POST audit/snapshot", Session("none"), ByCamera("canViewLive"), Use("canViewLive", "named")),
    Route("GET audit/snapshot/:id/download", Session("none"), ByResource("canViewLive"), Use("canViewLive", "owner"))}

SiteRoutes ==
    {Route("GET sites", Session("none"), Listing("view"), Use("view", "visible"))}
    \cup {Route(n, Admin("none"), Free, Config) : n \in {"POST sites", "PATCH sites/:id", "DELETE sites/:id"}}

EventRoutes == {
    Route("GET events", Session("none"), Listing("view"), Use("view", "narrowed")),
    Route("POST events/emit", Admin("none"), Free, Config)}

LoginRoutes == {
    Route("POST auth/login", Open, Free, Appliance),
    Route("GET auth/me", Session("none"), Free, Use("view", "visible")),
    Route("POST auth/logout", Open, Free, Appliance),
    Route("POST auth/me/password", Session("none"), Free, Use("account", "own"))}

UserRoutes ==
    {Route(n, Admin("none"), Free, Config) :
       n \in {"GET users", "POST users", "PATCH users/:id", "DELETE users/:id", "POST users/:id/reset-password"}}
    \cup {Route("POST users/:id/revoke-sessions", Session("none"), Free, Account)}

PermissionRoutes ==
    {Route(n, Admin("operator_role"), Free, Config) :
       n \in {"PUT users/:id/permissions", "PUT users/:id/site-permissions"}}
    \cup {Route(n, Session("none"), Free, Account) :
            n \in {"GET users/:id/permissions", "GET users/:id/site-permissions"}}

Routes == UNION {
    OnboardingRoutes, CommitRoutes, CameraRoutes, PtzRoutes, StorageRoutes, RecordingRoutes,
    ExportRoutes, BookmarkRoutes, ZoneRoutes, HealthRoutes, WhatsAppRoutes, SmtpRoutes,
    WebhookRoutes, StreamingRoutes, PlaybackRoutes, MediaRoutes, SettingsRoutes, SystemRoutes,
    BackupRoutes, AuditRoutes, SiteRoutes, EventRoutes, LoginRoutes, UserRoutes, PermissionRoutes}

-------------------------------------------------------------------------------
(* Serving a request *)

Refused(status) == [status |-> status, what |-> "nothing", cameras |-> {}, self |-> TRUE]
Gives(what, cameras) == [status |-> "ok", what |-> what, cameras |-> cameras, self |-> TRUE]

(* The handler, once the guards are passed.  "valid" stands for its checks of  *)
(* the body, the rate limit of snapshots and services that fail.               *)
Handle(r) ==
    LET use == r.route.use IN
    IF ~r.valid THEN Refused("400") ELSE
    CASE use.of = "nothing" -> Gives(use.what, {})
      [] use.of = "own" -> Gives(use.what, {})
      [] use.of = "self" ->
           IF role = "ADMIN" \/ r.self THEN [Gives(use.what, {}) EXCEPT !.self = r.self]
           ELSE Refused("403")
      [] use.of = "named" ->
           IF r.named \in Cameras THEN Gives(use.what, {r.named}) ELSE Refused("404")
      [] use.of = "owner" -> Gives(use.what, {r.owner} \cap Cameras)
      [] use.of = "match" ->
           IF r.owner = r.named /\ r.owner \in Cameras THEN Gives(use.what, {r.owner})
           ELSE Refused("404")
      [] use.of = "visible" -> Gives(use.what, ScopeCameras(use.what))
      [] use.of = "filtered" ->
           IF r.named = NoCamera THEN Gives(use.what, ScopeCameras(use.what))
           ELSE IF ScopeCan(r.named, use.what) THEN Gives(use.what, {r.named} \cap Cameras)
           ELSE Refused("403")
      [] use.of = "narrowed" ->
           Gives(use.what, IF r.named = NoCamera THEN ScopeCameras(use.what)
                           ELSE {r.named} \cap ScopeCameras(use.what))

Serve(r) ==
    LET gate == GateStatus(r.route.gate, r)
        enforced == EnforceStatus(r.route.access, r)
    IN  IF gate # "pass" THEN Refused(gate)
        ELSE IF enforced # "pass" THEN Refused(enforced)
        ELSE Handle(r)

-------------------------------------------------------------------------------
(* Events: those of a camera, of a site, and of the appliance *)

Events == [camera : Cameras, site : {NoSite}] \cup [camera : {NoCamera}, site : Sites]

CamerasAt(s) == {c \in Cameras : siteOf[c] = s}

(* canSee of the websocket feed: a site event lists the cameras of its site. *)
CanSee(e) ==
    \/ Unrestricted("view")
    \/ e.camera \in ScopeCameras("view")
    \/ e.camera = NoCamera /\ CamerasAt(e.site) \cap ScopeCameras("view") # {}

(* The filter of GET /api/events without parameters, and queryEvents. *)
EventListed(e) ==
    \/ Unrestricted("view")
    \/ e.camera \in ScopeCameras("view")
    \/ e.site \in {siteOf[c] : c \in ScopeCameras("view")} \cap Sites

-------------------------------------------------------------------------------
(* Behaviour *)

Idle == [name |-> "idle"]
Owners(route) == Cameras \cup {NoCamera} \cup IF route.access.kind = "stream" THEN {"preview"} ELSE {}
SomeCamera == CHOOSE c \in Cameras : TRUE

(* Every field varies where the route looks at it. *)
Requests(route) ==
    LET plain == [route |-> route, credential |-> "bearer", named |-> SomeCamera,
                  owner |-> SomeCamera, valid |-> TRUE, self |-> TRUE]
    IN  {[plain EXCEPT !.credential = cr] : cr \in {"bearer", "cookie", "none"}}
        \cup {[plain EXCEPT !.valid = FALSE]}
        \cup {[plain EXCEPT !.self = FALSE]}
        \cup {[plain EXCEPT !.named = n] : n \in
                IF route.access.kind \in {"camera", "list"} THEN Cameras \cup {Unknown, NoCamera} ELSE {}}
        \cup {[plain EXCEPT !.owner = o] : o \in
                IF route.access.kind \in {"resource", "stream"} \/ route.use.of = "match"
                THEN Owners(route) ELSE {}}

(* Rights are a union: one flag on one camera and one site shows what more of  *)
(* them only add to.                                                           *)
FewGrants(S) == {g \in [S -> SUBSET Flags] :
    /\ \A s \in S : Cardinality(g[s]) <= MaxFlags
    /\ Cardinality({s \in S : g[s] # {}}) <= MaxGrants}

AccessInit ==
    /\ role \in Roles
    /\ cameraGrants \in FewGrants(Cameras) /\ siteGrants \in FewGrants(Sites)
    /\ role # "OPERATOR" => \A c \in Cameras : cameraGrants[c] = {}
    /\ role # "OPERATOR" => \A s \in Sites : siteGrants[s] = {}
    /\ siteOf \in [Cameras -> Sites \cup {NoSite}]
    /\ licence \in {"core", "extended", "expired"}
    /\ request = Idle /\ response = Refused("none")

Ask ==
    /\ request = Idle
    /\ \E route \in Routes : \E r \in Requests(route) :
         /\ request' = r
         /\ response' = Serve(r)
    /\ UNCHANGED <<role, cameraGrants, siteGrants, siteOf, licence>>

(* A camera moves to another site between requests. *)
Moves ==
    /\ request # Idle
    /\ request' = Idle /\ response' = Refused("none")
    /\ \E c \in Cameras, s \in Sites \cup {NoSite} : siteOf' = [siteOf EXCEPT ![c] = s]
    /\ UNCHANGED <<role, cameraGrants, siteGrants, licence>>

AccessNext == Ask \/ Moves

AccessSpec == AccessInit /\ [][AccessNext]_accessVars

-------------------------------------------------------------------------------
(* Properties *)

(* The policy, as the head of camera-scope.ts and the comments of the routes  *)
(* word it, independently of how the guards reach it.                         *)
Entitled(c, right) ==
    LET granted(flag) ==
          \/ role = "ADMIN"
          \/ role = "VIEWER" /\ flag \in {"canViewLive", "canViewPlayback"}
          \/ role = "OPERATOR" /\ flag \in cameraGrants[c]
          \/ role = "OPERATOR" /\ \E s \in Sites : siteOf[c] = s /\ flag \in siteGrants[s]
    IN  IF right = "view" THEN granted("canViewLive") \/ granted("canViewPlayback")
        ELSE granted(right)

(***************************************************************************)
(* Nobody gets data of a camera, or moves or exports it, without the right *)
(* on that very camera; configuration is the administrators'; accounts are *)
(* their owners' and the administrators'; the media cookie opens media     *)
(* only.  The camera a guard checks and the camera a handler uses come     *)
(* from different parts of a request (path, query, body, the owner of a    *)
(* resource), so every pair of them is tried.                              *)
(***************************************************************************)
AccessIsEarned ==
    response.status = "ok" =>
      /\ \A c \in response.cameras : Entitled(c, response.what)
      /\ response.what = "config" => role = "ADMIN"
      /\ response.what = "account" => role = "ADMIN" \/ response.self
      /\ request.credential = "cookie" =>
           request.route \in MediaRoutes \/ request.route.gate.auth = "open"

(***************************************************************************)
(* What lists give is what their user may see, and all of it: the lists    *)
(* filter by a scope of their own making, for some as a set of ids, for    *)
(* some camera by camera, while "null" stands for every camera.            *)
(***************************************************************************)
ListsAreExact ==
    response.status = "ok" /\ request.route.access.kind = "list"
    /\ (request.route.use.of = "visible" \/ request.named = NoCamera) =>
      response.cameras = {c \in Cameras : Entitled(c, response.what)}

(***************************************************************************)
(* The feed and the list of events agree on every event of a camera or a   *)
(* site, at every moment, while cameras move between sites.                *)
(***************************************************************************)
FeedAgreesWithList == \A e \in Events : CanSee(e) <=> EventListed(e)

(***************************************************************************)
(* What the three rest on: an answer is the one its request gets with the  *)
(* role, the grants and the sites that still hold, since whatever changes  *)
(* them comes between two requests.                                        *)
(***************************************************************************)
AccessInv ==
    /\ role \in Roles
    /\ \/ request = Idle /\ response = Refused("none")
       \/ \E route \in Routes : request \in Requests(route) /\ response = Serve(request)

===============================================================================
