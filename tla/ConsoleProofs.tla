------------------------------ MODULE ConsoleProofs ------------------------------
(***************************************************************************)
(* The live player keeps hold of its sessions, whatever is loaded, fails,  *)
(* returns and is cleaned in whatever order: PlayerInv of LivePlayer is    *)
(* inductive.  The player is proved as the part of MCConsole it is; its    *)
(* bounds may have any values, since no step of the proof looks at them.   *)
(***************************************************************************)
EXTENDS MCConsole, TLAPS

-------------------------------------------------------------------------------
(* The steps of the player *)

(* A player that is mounted has one load under way and no session. *)
LEMMA PlayerStarts == Player!PlayerInit => Player!PlayerInv
<1> SUFFICES ASSUME Player!PlayerInit PROVE Player!PlayerInv
    OBVIOUS
<1> USE DEF Player!PlayerInit, Player!Layers, Player!NoLayer, Player!NoUrl, Player!NoSession,
            Player!NoSource, Player!EmptyLayer, Player!LoadedUrls
<1>1. Player!PlayerTypeOK
  <2>1. [Player!EmptyLayer EXCEPT !.loadId = 1] \in Player!LayerStates /\ Player!EmptyLayer \in Player!LayerStates
    BY DEF Player!LayerStates
  <2>2. layer \in [Player!Layers -> Player!LayerStates]
    BY <2>1
  <2>3. QED
    BY <2>2 DEF Player!PlayerTypeOK, Player!Calls
<1>2. Player!LoadsAreNumbered
  BY DEF Player!LoadsAreNumbered
<1>3. Player!OneSessionPerLoad
  BY DEF Player!OneSessionPerLoad
<1>4. Player!SessionsAreHeld /\ Player!ShownIsKept
  BY DEF Player!SessionsAreHeld, Player!ShownIsKept
<1>5. QED
  BY <1>1, <1>2, <1>3, <1>4 DEF Player!PlayerInv

(* What the invariant says of the numbers of layers and calls. *)
LEMMA PlayerFacts ==
    ASSUME Player!PlayerInv
    PROVE  /\ sequence \in Nat /\ sequence + 1 \in Nat \ {0}
           /\ \A l \in Player!Layers : /\ layer[l] \in Player!LayerStates
                                       /\ layer[l].loadId \in Nat /\ layer[l].loadId <= sequence
                                       /\ layer[l].session \in Nat
           /\ \A p \in pending : /\ p \in Player!Calls /\ p.layer \in Player!Layers
                                 /\ p.id \in Nat \ {0} /\ p.id <= sequence
BY DEF Player!PlayerInv, Player!PlayerTypeOK, Player!LoadsAreNumbered, Player!LayerStates,
       Player!Calls

(* A layer that is emptied loses its session, and is loaded again under a new number, or by
   HLS under its old one: common to every load and to the timer. *)
LEMMA LayerEmptied ==
    ASSUME Player!PlayerInv, NEW l \in Player!Layers, NEW x \in Player!LayerStates,
           NEW new \in SUBSET Player!Calls,
           layer' = [layer EXCEPT ![l] = x], x.session = Player!NoSession,
           \/ x.loadId = layer[l].loadId /\ sequence' = sequence
           \/ x.loadId = sequence + 1 /\ sequence' = sequence + 1,
           open' = open \ {layer[l].session},
           pending' \subseteq pending \cup new,
           \A c \in new : c.id = x.loadId /\ (c.call = "whep" => c.id = sequence + 1),
           \A c, d \in new : c = d,
           mounted, mounted' = mounted, wanted' \in Urls, active' = active,
           teardown' \in {teardown, Player!NoLayer}
    PROVE  Player!PlayerInv'
<1> USE PlayerFacts DEF Player!PlayerInv
<1>0. /\ layer \in [Player!Layers -> Player!LayerStates]
      /\ x.loadId \in Nat /\ x.loadId <= sequence' /\ sequence' \in Nat
      /\ sequence <= sequence'
  BY DEF Player!PlayerTypeOK, Player!LayerStates
<1>1. Player!PlayerTypeOK'
  <2>1. layer' \in [Player!Layers -> Player!LayerStates]
    BY <1>0
  <2>2. pending' \subseteq Player!Calls
    OBVIOUS
  <2>3. QED
    BY <1>0, <2>1, <2>2 DEF Player!PlayerTypeOK
<1>2. layer'[l] = x /\ \A k \in Player!Layers : k # l => layer'[k] = layer[k]
  BY <1>0
<1>3. \A k \in Player!Layers : k # l => layer[k].loadId # x.loadId
  BY <1>0 DEF Player!LoadsAreNumbered, Player!Layers
<1>4. Player!LoadsAreNumbered'
  <2>1. \A k \in Player!Layers : layer'[k].loadId <= sequence'
    BY <1>0, <1>2
  <2>2. \A p \in pending' : p.id <= sequence'
    BY <1>0
  <2>3. layer'[0].loadId # layer'[1].loadId
    BY <1>2, <1>3 DEF Player!Layers
  <2>4. \A p, q \in pending' : p.call = "whep" /\ q.call = "whep" /\ p.id = q.id => p = q
    <3>1. SUFFICES ASSUME NEW p \in pending', NEW q \in pending',
                          p.call = "whep", q.call = "whep", p.id = q.id
                   PROVE  p = q
      OBVIOUS
    <3>2. CASE p \in pending /\ q \in pending
      BY <3>1, <3>2 DEF Player!LoadsAreNumbered
    <3>3. CASE p \notin pending \/ q \notin pending
      <4>1. \A n \in Nat : ~(n + 1 <= n)
        OBVIOUS
      <4>2. p \in new /\ q \in new
        BY <3>1, <3>3, <4>1
      <4>3. QED
        BY <4>2
    <3>4. QED
      BY <3>2, <3>3
  <2>5. QED
    BY <2>1, <2>2, <2>3, <2>4 DEF Player!LoadsAreNumbered
<1>5. Player!OneSessionPerLoad'
  <2>1. \A k \in Player!Layers : layer'[k].session \in {Player!NoSession, layer'[k].loadId}
    BY <1>2 DEF Player!OneSessionPerLoad
  <2>2. ASSUME NEW p \in pending', p.call = "whep", layer'[p.layer].loadId = p.id
        PROVE  layer'[p.layer].session = Player!NoSession
    <3>1. p \in Player!Calls /\ p.layer \in Player!Layers
      BY DEF Player!Calls
    <3>2. CASE p.layer = l
      BY <1>2, <3>2
    <3>3. CASE p.layer # l
      <4>1. layer'[p.layer] = layer[p.layer]
        BY <1>2, <3>1, <3>3
      <4>2. p \in pending
        BY <1>3, <2>2, <3>1, <3>3, <4>1
      <4>3. QED
        BY <2>2, <4>1, <4>2 DEF Player!OneSessionPerLoad
    <3>4. QED
      BY <3>2, <3>3
  <2>3. QED
    BY <2>1, <2>2 DEF Player!OneSessionPerLoad
<1>6. Player!SessionsAreHeld'
  BY <1>2, <1>3 DEF Player!SessionsAreHeld, Player!LoadsAreNumbered, Player!OneSessionPerLoad,
                    Player!Layers, Player!NoSession
<1>7. Player!ShownIsKept'
  BY DEF Player!ShownIsKept, Player!PlayerTypeOK, Player!NoLayer, Player!Layers
<1>8. QED
  BY <1>1, <1>4, <1>5, <1>6, <1>7

(* loadStreamIntoLayer. *)
LEMMA StreamLoads ==
    ASSUME Player!PlayerInv, NEW l \in Player!Layers, NEW url \in Urls, NEW initial,
           Player!LoadStreamIntoLayer(l, url, initial),
           mounted, mounted' = mounted, wanted' \in Urls, active' = active,
           teardown' \in {teardown, Player!NoLayer}
    PROVE  Player!PlayerInv'
<1> DEFINE x == [Player!EmptyLayer EXCEPT !.loadId = sequence + 1]
           c == [call |-> "whep", layer |-> l, id |-> sequence + 1, url |-> url]
<1>1. x \in Player!LayerStates /\ x.session = Player!NoSession /\ x.loadId = sequence + 1
  BY PlayerFacts DEF Player!EmptyLayer, Player!LayerStates, Player!NoSession, Player!NoSource,
                     Player!NoUrl, Player!LoadedUrls
<1>2. c \in Player!Calls /\ c.id = sequence + 1
  BY PlayerFacts DEF Player!Calls, Player!LoadedUrls
<1>3. /\ layer' = [layer EXCEPT ![l] = x] /\ sequence' = sequence + 1
      /\ open' = open \ {layer[l].session} /\ pending' = pending \cup {c}
  BY DEF Player!LoadStreamIntoLayer
<1> DEFINE new == {c}
<1>4. /\ new \in SUBSET Player!Calls /\ pending' \subseteq pending \cup new
      /\ \A d \in new : d.id = x.loadId /\ (d.call = "whep" => d.id = sequence + 1)
      /\ \A d, e \in new : d = e
  BY <1>1, <1>2, <1>3
<1> HIDE DEF x, new
<1>5. QED
  BY <1>1, <1>3, <1>4, LayerEmptied

(* loadHlsIntoLayer, of a new load or as the fallback of one. *)
LEMMA HlsLoads ==
    ASSUME Player!PlayerInv, NEW l \in Player!Layers, NEW url \in Player!LoadedUrls, NEW id, NEW rest,
           NEW failed \in BOOLEAN, Player!LoadHlsIntoLayer(l, url, id, rest, failed),
           id \in {layer[l].loadId, sequence + 1}, id # 0, rest \subseteq pending,
           mounted, mounted' = mounted, wanted' \in Urls, active' = active,
           teardown' \in {teardown, Player!NoLayer}
    PROVE  Player!PlayerInv'
<1> DEFINE x == [Player!EmptyLayer EXCEPT !.loadId = id, !.mode = "hls", !.iceFailed = failed]
           c == [call |-> "hls", layer |-> l, id |-> id, url |-> url]
<1>1. id \in Nat \ {0}
  BY PlayerFacts
<1>2. x \in Player!LayerStates /\ x.session = Player!NoSession /\ x.loadId = id
  BY <1>1 DEF Player!EmptyLayer, Player!LayerStates, Player!NoSession, Player!NoSource,
              Player!NoUrl, Player!LoadedUrls
<1>3. c \in Player!Calls /\ c.id = id /\ c.call = "hls"
  BY <1>1 DEF Player!Calls
<1>4. /\ layer' = [layer EXCEPT ![l] = x]
      /\ open' = open \ {layer[l].session} /\ pending' = rest \cup {c}
  BY DEF Player!LoadHlsIntoLayer
<1>5. \/ x.loadId = layer[l].loadId /\ sequence' = sequence
      \/ x.loadId = sequence + 1 /\ sequence' = sequence + 1
  BY <1>2, PlayerFacts DEF Player!LoadHlsIntoLayer
<1> DEFINE new == {c}
<1>6. /\ new \in SUBSET Player!Calls /\ pending' \subseteq pending \cup new
      /\ \A d \in new : d.id = x.loadId /\ (d.call = "whep" => d.id = sequence + 1)
      /\ \A d, e \in new : d = e
  BY <1>2, <1>3, <1>4
<1> HIDE DEF x, new
<1>7. QED
  BY <1>2, <1>4, <1>5, <1>6, LayerEmptied

(* A call that is over leaves everything else as it is. *)
LEMMA CallIsOver ==
    ASSUME Player!PlayerInv, pending' \subseteq pending,
           UNCHANGED <<mounted, active, layer, sequence, teardown, open>>,
           wanted' \in Urls \cup {wanted}
    PROVE  Player!PlayerInv'
BY PlayerFacts DEF Player!PlayerInv, Player!PlayerTypeOK, Player!LoadsAreNumbered,
                   Player!OneSessionPerLoad, Player!SessionsAreHeld, Player!ShownIsKept

(* A layer is shown or given something to play; its number and its session stay. *)
LEMMA LayerGoesOn ==
    ASSUME Player!PlayerInv, NEW l \in Player!Layers, NEW x \in Player!LayerStates,
           layer' = [layer EXCEPT ![l] = x],
           x.loadId = layer[l].loadId, x.session = layer[l].session,
           pending' \subseteq pending,
           UNCHANGED <<mounted, wanted, sequence, open>>,
           \/ UNCHANGED <<active, teardown>>
           \/ active' = l /\ teardown' = (IF active = l THEN teardown ELSE active)
    PROVE  Player!PlayerInv'
<1> USE PlayerFacts DEF Player!PlayerInv
<1>1. Player!PlayerTypeOK'
  BY DEF Player!PlayerTypeOK
<1>2. \A k \in Player!Layers : /\ layer'[k].loadId = layer[k].loadId
                               /\ layer'[k].session = layer[k].session
  BY DEF Player!PlayerTypeOK
<1>3. 0 \in Player!Layers /\ 1 \in Player!Layers
  BY DEF Player!Layers
<1>4. Player!LoadsAreNumbered'
  BY <1>2, <1>3 DEF Player!LoadsAreNumbered
<1>5. Player!OneSessionPerLoad'
  BY <1>2 DEF Player!OneSessionPerLoad
<1>6. Player!SessionsAreHeld'
  <2>1. {layer'[k].session : k \in Player!Layers} = {layer[k].session : k \in Player!Layers}
    BY <1>2
  <2>2. QED
    BY <2>1 DEF Player!SessionsAreHeld
<1>7. Player!ShownIsKept'
  BY DEF Player!ShownIsKept, Player!PlayerTypeOK
<1>8. QED
  BY <1>1, <1>4, <1>5, <1>6, <1>7

(* A connection that is there becomes the session of its layer, when it is still the one
   the layer waits for; no other call of that number is under way then. *)
LEMMA WhepReturns ==
    ASSUME Player!PlayerInv, NEW p \in pending, Player!ConnectWhepReturns(p)
    PROVE  Player!PlayerInv'
<1> USE PlayerFacts
<1>1. p.call = "whep" /\ pending' = pending \ {p} /\ UNCHANGED <<mounted, wanted, sequence, teardown>>
      /\ UNCHANGED active
  BY DEF Player!ConnectWhepReturns, Player!Shown
<1>2. CASE ~Player!IsCurrent(p)
  BY <1>1, <1>2, CallIsOver DEF Player!ConnectWhepReturns
<1>3. CASE Player!IsCurrent(p)
  <2> DEFINE x == [layer[p.layer] EXCEPT
                     !.session = p.id, !.played = FALSE,
                     !.source = [kind |-> IF layer[p.layer].iceFailed THEN "dead" ELSE "webrtc",
                                 url |-> p.url]]
  <2>1. /\ p.layer \in Player!Layers /\ p.id \in Nat \ {0} /\ p.url \in Player!LoadedUrls
        /\ layer[p.layer].loadId = p.id /\ mounted
    BY <1>3 DEF Player!IsCurrent, Player!Calls
  <2>2. /\ x \in Player!LayerStates /\ x.session = p.id /\ x.loadId = p.id
    BY <2>1 DEF Player!LayerStates
  <2>3. layer' = [layer EXCEPT ![p.layer] = x] /\ open' = open \cup {p.id}
    BY <1>3 DEF Player!ConnectWhepReturns, Player!TakesSession
  <2>4. layer \in [Player!Layers -> Player!LayerStates]
    BY DEF Player!PlayerInv, Player!PlayerTypeOK
  <2> HIDE DEF x
  <2>5. /\ layer'[p.layer] = x
        /\ \A k \in Player!Layers : k # p.layer => layer'[k] = layer[k]
    BY <2>1, <2>3, <2>4
  <2>6. \A k \in Player!Layers : layer'[k].loadId = layer[k].loadId
    BY <2>1, <2>2, <2>5
  <2>7. Player!PlayerTypeOK'
    <3>1. layer' \in [Player!Layers -> Player!LayerStates]
      BY <2>2, <2>3, <2>4
    <3>2. QED
      BY <1>1, <3>1 DEF Player!PlayerInv, Player!PlayerTypeOK
  <2>8. Player!LoadsAreNumbered'
    <3>1. 0 \in Player!Layers /\ 1 \in Player!Layers
      BY DEF Player!Layers
    <3>2. QED
      BY <1>1, <2>6, <3>1 DEF Player!PlayerInv, Player!LoadsAreNumbered
  <2>9. Player!OneSessionPerLoad'
    <3>1. \A k \in Player!Layers : layer'[k].session \in {Player!NoSession, layer'[k].loadId}
      BY <2>2, <2>5 DEF Player!PlayerInv, Player!OneSessionPerLoad
    <3>2. ASSUME NEW q \in pending', q.call = "whep", layer'[q.layer].loadId = q.id
          PROVE  layer'[q.layer].session = Player!NoSession
      <4>1. q \in pending /\ q # p /\ q.layer \in Player!Layers
        BY <1>1, <3>2
      <4>2. q.id # p.id
        BY <1>1, <3>2, <4>1 DEF Player!PlayerInv, Player!LoadsAreNumbered
      <4>3. q.layer # p.layer
        BY <2>1, <2>6, <3>2, <4>2
      <4>4. layer'[q.layer] = layer[q.layer]
        BY <2>5, <4>1, <4>3
      <4>5. QED
        BY <3>2, <4>1, <4>4 DEF Player!PlayerInv, Player!OneSessionPerLoad
    <3>3. QED
      BY <3>1, <3>2 DEF Player!OneSessionPerLoad
  <2>10. Player!SessionsAreHeld'
    <3>1. layer[p.layer].session = Player!NoSession
      BY <1>1, <2>1 DEF Player!PlayerInv, Player!OneSessionPerLoad
    <3>2. open' = {layer'[k].session : k \in Player!Layers} \ {Player!NoSession}
      BY <2>1, <2>2, <2>3, <2>5, <3>1 DEF Player!PlayerInv, Player!SessionsAreHeld, Player!NoSession
    <3>3. mounted'
      BY <1>1, <2>1
    <3>4. QED
      BY <3>2, <3>3 DEF Player!SessionsAreHeld
  <2>11. Player!ShownIsKept'
    BY <1>1 DEF Player!PlayerInv, Player!ShownIsKept
  <2>12. QED
    BY <2>7, <2>8, <2>9, <2>10, <2>11 DEF Player!PlayerInv
<1>4. QED
  BY <1>2, <1>3

(* The player goes: both layers are cleaned, under two new numbers. *)
LEMMA PlayerUnmounts ==
    ASSUME Player!PlayerInv, Player!Unmount
    PROVE  Player!PlayerInv'
<1> USE PlayerFacts
<1>0. /\ mounted' = FALSE /\ sequence' = sequence + 2 /\ teardown' = Player!NoLayer
      /\ UNCHANGED <<wanted, pending, active>>
      /\ open' = open \ {layer[l].session : l \in Player!Layers}
  BY DEF Player!Unmount, Player!Shown
<1> DEFINE x(l) == Player!Cleaned(l, sequence + 1 + l)
<1>1. layer' = [l \in Player!Layers |-> x(l)]
  BY DEF Player!Unmount
<1>2. ASSUME NEW l \in Player!Layers
      PROVE  /\ x(l) \in Player!LayerStates
             /\ x(l).loadId = sequence + 1 + l /\ x(l).session = Player!NoSession
  <2>1. /\ layer[l].mode \in {"webrtc", "hls"}
        /\ sequence + 1 + l \in Nat
    BY DEF Player!LayerStates, Player!Layers
  <2>2. x(l).loadId = sequence + 1 + l /\ x(l).session = Player!NoSession
    BY DEF Player!Cleaned, Player!EmptyLayer
  <2>3. x(l) \in Player!LayerStates
    BY <2>1 DEF Player!Cleaned, Player!EmptyLayer, Player!LayerStates, Player!NoSession,
                Player!NoSource, Player!NoUrl, Player!LoadedUrls
  <2>4. QED
    BY <2>2, <2>3
<1> HIDE DEF x
<1>3. \A l \in Player!Layers :
         layer'[l].loadId = sequence + 1 + l /\ layer'[l].session = Player!NoSession
  BY <1>1, <1>2
<1>4. Player!PlayerTypeOK'
  <2>1. layer' \in [Player!Layers -> Player!LayerStates]
    BY <1>1, <1>2
  <2>2. sequence + 2 \in Nat
    OBVIOUS
  <2>3. QED
    BY <1>0, <2>1, <2>2 DEF Player!PlayerInv, Player!PlayerTypeOK, Player!NoLayer
<1>5. Player!LoadsAreNumbered'
  BY <1>0, <1>3 DEF Player!PlayerInv, Player!LoadsAreNumbered, Player!Layers
<1>6. Player!OneSessionPerLoad'
  BY <1>0, <1>3 DEF Player!OneSessionPerLoad
<1>7. Player!SessionsAreHeld'
  BY <1>0, <1>3 DEF Player!PlayerInv, Player!SessionsAreHeld
<1>8. Player!ShownIsKept'
  BY <1>0 DEF Player!ShownIsKept
<1>9. QED
  BY <1>4, <1>5, <1>6, <1>7, <1>8 DEF Player!PlayerInv

(* Every step of the player. *)
LEMMA PlayerStep ==
    ASSUME Player!PlayerInv, [Player!PlayerNext]_playerVars
    PROVE  Player!PlayerInv'
<1> USE PlayerFacts
<1>0. wanted \in Urls /\ active \in Player!Layers /\ teardown \in {0, 1, Player!NoLayer}
      /\ 1 - active \in Player!Layers /\ layer \in [Player!Layers -> Player!LayerStates]
      /\ 0 \in Player!Layers
  BY DEF Player!PlayerInv, Player!PlayerTypeOK, Player!Layers
<1>1. CASE UNCHANGED playerVars
  BY <1>1, CallIsOver DEF playerVars
<1>2. ASSUME NEW url \in Urls, Player!Want(url)
      PROVE  Player!PlayerInv'
  <2>1. CASE current = url
    BY <1>2, <2>1, CallIsOver DEF Player!Want
  <2>2. CASE current # url
    <3> DEFINE l == IF ~hadPlayback /\ current = Player!NoUrl THEN 0 ELSE 1 - active
    <3>1. l \in Player!Layers
      BY <1>0
    <3>2. /\ Player!LoadStreamIntoLayer(l, url, ~hadPlayback /\ current = Player!NoUrl)
          /\ mounted /\ mounted' = mounted /\ wanted' \in Urls /\ active' = active
          /\ teardown' \in {teardown, Player!NoLayer}
      BY <1>2, <2>2 DEF Player!Want
    <3> HIDE DEF l
    <3>3. QED
      BY <3>1, <3>2, StreamLoads
  <2>3. QED
    BY <2>1, <2>2
<1>3. ASSUME Player!HandleReconnect
      PROVE  Player!PlayerInv'
  BY <1>0, <1>3, StreamLoads DEF Player!HandleReconnect
<1>4. ASSUME Player!TeardownTimer
      PROVE  Player!PlayerInv'
  <2> DEFINE x == Player!Cleaned(teardown, sequence + 1)
  <2>1. teardown \in Player!Layers /\ mounted
    BY <1>0, <1>4 DEF Player!TeardownTimer, Player!Layers
  <2>2. /\ x \in Player!LayerStates /\ x.loadId = sequence + 1 /\ x.session = Player!NoSession
    <3>1. layer[teardown].mode \in {"webrtc", "hls"}
      BY <2>1 DEF Player!LayerStates
    <3>2. QED
      BY <3>1 DEF Player!Cleaned, Player!EmptyLayer, Player!LayerStates, Player!NoSession,
                  Player!NoSource, Player!NoUrl, Player!LoadedUrls
  <2> HIDE DEF x
  <2>3. /\ layer' = [layer EXCEPT ![teardown] = x] /\ sequence' = sequence + 1
        /\ open' = open \ {layer[teardown].session} /\ pending' = pending
        /\ UNCHANGED <<mounted, wanted, active>> /\ teardown' = Player!NoLayer
    BY <1>4 DEF Player!TeardownTimer, Player!Shown, x
  <2>4. {} \in SUBSET Player!Calls /\ pending' \subseteq pending \cup {}
    BY <2>3
  <2>5. QED
    BY <1>0, <2>1, <2>2, <2>3, <2>4, LayerEmptied
<1>5. ASSUME Player!Unmount
      PROVE  Player!PlayerInv'
  BY <1>5, PlayerUnmounts
<1>6. ASSUME NEW p \in pending, Player!Returns(p)
      PROVE  Player!PlayerInv'
  <2>1. CASE Player!ConnectWhepReturns(p)
    BY <2>1, WhepReturns
  <2>2. CASE Player!PlaylistIsThere(p)
    <3>1. /\ pending' \subseteq pending
          /\ UNCHANGED <<mounted, wanted, active, sequence, teardown, open>>
      BY <2>2 DEF Player!PlaylistIsThere, Player!Shown
    <3> DEFINE Shows == Player!IsCurrent(p) /\ layer[p.layer].session = Player!NoSession
    <3>2. CASE ~Shows
      <4>1. layer' = layer
        BY <2>2, <3>2 DEF Player!PlaylistIsThere
      <4>2. QED
        BY <3>1, <4>1, CallIsOver
    <3>3. CASE Shows
      <4> DEFINE x == [layer[p.layer] EXCEPT !.source = [kind |-> "hls", url |-> p.url]]
      <4>1. p.url \in Player!LoadedUrls
        BY DEF Player!Calls
      <4>2. /\ x \in Player!LayerStates /\ x.loadId = layer[p.layer].loadId
            /\ x.session = layer[p.layer].session
        BY <4>1 DEF Player!LayerStates
      <4>3. layer' = [layer EXCEPT ![p.layer] = x]
        BY <2>2, <3>3 DEF Player!PlaylistIsThere
      <4> HIDE DEF x
      <4>4. QED
        BY <3>1, <4>2, <4>3, LayerGoesOn
    <3>4. QED
      BY <3>2, <3>3
  <2>3. QED
    BY <1>6, <2>1, <2>2 DEF Player!Returns
<1>7. ASSUME NEW p \in pending, Player!Fails(p)
      PROVE  Player!PlayerInv'
  <2>1. CASE Player!ConnectWhepFails(p)
    <3>1. UNCHANGED <<mounted, wanted, active, teardown>>
      BY <2>1 DEF Player!ConnectWhepFails, Player!Shown
    <3>2. CASE Player!IsCurrent(p)
      <4>1. /\ Player!LoadHlsIntoLayer(p.layer, p.url, p.id, pending \ {p}, FALSE)
            /\ mounted /\ p.id = layer[p.layer].loadId /\ p.id # 0
        BY <2>1, <3>2 DEF Player!ConnectWhepFails, Player!IsCurrent
      <4>2. p.url \in Player!LoadedUrls /\ pending \ {p} \subseteq pending
        BY DEF Player!Calls
      <4>3. QED
        BY <1>0, <3>1, <4>1, <4>2, HlsLoads
    <3>3. CASE ~Player!IsCurrent(p)
      BY <2>1, <3>1, <3>3, CallIsOver DEF Player!ConnectWhepFails
    <3>4. QED
      BY <3>2, <3>3
  <2>2. CASE Player!PlaylistFails(p)
    BY <2>2, CallIsOver DEF Player!PlaylistFails
  <2>3. QED
    BY <1>7, <2>1, <2>2 DEF Player!Fails
<1>8. ASSUME NEW l \in Player!Layers, Player!IceFails(l)
      PROVE  Player!PlayerInv'
  <2>1. /\ Player!LoadHlsIntoLayer(l, layer[l].source.url, layer[l].loadId, pending, FALSE)
        /\ mounted /\ UNCHANGED <<mounted, wanted, active, teardown>>
        /\ layer[l].loadId # 0
    BY <1>8 DEF Player!IceFails, Player!Shown, Player!NoSession
  <2>2. layer[l].source.url \in Player!LoadedUrls
    BY DEF Player!LayerStates
  <2>3. QED
    BY <1>0, <2>1, <2>2, HlsLoads
<1>9. ASSUME NEW l \in Player!Layers, Player!Plays(l)
      PROVE  Player!PlayerInv'
  <2> DEFINE x == [layer[l] EXCEPT !.played = TRUE]
  <2>1. /\ x \in Player!LayerStates /\ x.loadId = layer[l].loadId
        /\ x.session = layer[l].session
    BY DEF Player!LayerStates
  <2>2. layer' = [layer EXCEPT ![l] = x]
    BY <1>9 DEF Player!Plays
  <2> HIDE DEF x
  <2>3. /\ active' = l /\ teardown' = (IF active = l THEN teardown ELSE active)
        /\ pending' \subseteq pending /\ UNCHANGED <<mounted, wanted, sequence, open>>
    BY <1>9 DEF Player!Plays
  <2>4. QED
    BY <2>1, <2>2, <2>3, LayerGoesOn
<1>10. ASSUME NEW l \in Player!Layers, Player!HandleLayerError(l)
       PROVE  Player!PlayerInv'
  <2>1. mounted /\ UNCHANGED <<mounted, wanted, active, teardown>>
    BY <1>10 DEF Player!HandleLayerError
  <2>2. CASE layer[l].mode = "webrtc"
    <3>1. Player!LoadHlsIntoLayer(l, wanted, sequence + 1, pending, FALSE)
      BY <1>10, <2>2 DEF Player!HandleLayerError
    <3>2. wanted \in Player!LoadedUrls /\ sequence + 1 # 0
      BY <1>0 DEF Player!LoadedUrls
    <3>3. QED
      BY <1>0, <2>1, <3>1, <3>2, HlsLoads
  <2>3. CASE layer[l].mode # "webrtc"
    BY <1>10, <2>1, <2>3, CallIsOver DEF Player!HandleLayerError
  <2>4. QED
    BY <2>2, <2>3
<1>11. ASSUME NEW p \in pending, Player!IceFailsEarly(p)
       PROVE  Player!PlayerInv'
  <2>1. PICK failed \in BOOLEAN : Player!LoadHlsIntoLayer(p.layer, p.url, p.id, pending, failed)
    BY <1>11 DEF Player!IceFailsEarly
  <2>2. /\ mounted /\ p.id = layer[p.layer].loadId /\ p.id # 0
        /\ UNCHANGED <<mounted, wanted, active, teardown>>
    BY <1>11 DEF Player!IceFailsEarly, Player!IsCurrent, Player!Shown
  <2>3. p.url \in Player!LoadedUrls
    BY DEF Player!Calls
  <2>4. QED
    BY <1>0, <2>1, <2>2, <2>3, HlsLoads
<1>12. QED
  BY <1>1, <1>2, <1>3, <1>4, <1>5, <1>6, <1>7, <1>8, <1>9, <1>10, <1>11 DEF Player!PlayerNext

-------------------------------------------------------------------------------
(* The player as a part of the console *)

(* The invariant of the player holds whichever part of the console moves. *)
THEOREM PlayerConsistent == Spec => []Player!PlayerInv
<1>1. Init => Player!PlayerInv
  BY PlayerStarts DEF Init
<1>2. Player!PlayerInv /\ [Next]_vars => Player!PlayerInv'
  BY PlayerStep DEF Next, vars
<1>3. QED
  BY <1>1, <1>2, PTL DEF Spec

(* Every session of a connection that came back is held by the layer that plays it until it is
   deleted, and a player that is gone holds none; the session of a connectWhep that failed
   after its POST was accepted is not among them (NothingIsLeft of LivePlayer). *)
THEOREM ReturnedSessionsAreHeld == Spec => []SessionsAreHeld
<1>1. Player!PlayerInv => SessionsAreHeld
  BY DEF Player!PlayerInv, SessionsAreHeld
<1>2. QED
  BY <1>1, PlayerConsistent, PTL

(* The timer that cleans the layer that was left never finds it shown. *)
THEOREM ShownLayerStays == Spec => []Player!ShownIsKept
<1>1. Player!PlayerInv => Player!ShownIsKept
  BY DEF Player!PlayerInv
<1>2. QED
  BY <1>1, PlayerConsistent, PTL
===============================================================================
