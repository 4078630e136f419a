-------------------------- MODULE MuxDisplayProofs --------------------------
(***************************************************************************)
(* Proofs about MuxDisplay, for every set of surfaces and regions, every   *)
(* alignment, high-water mark, fault set and bound.                        *)
(***************************************************************************)
EXTENDS MuxDisplay, SequenceTheorems, TLAPS

-----------------------------------------------------------------------------
(* Rectangles.                                                             *)

(* mux_expand_rect returns a box that contains both of its arguments.      *)
LEMMA ExpandCovers ==
    ASSUME NEW u \in Boxes, NEW r \in Boxes
    PROVE  /\ mux_expand_rect(u, r) \in Boxes
           /\ \A p \in Nat \X Nat :
                  InBox(p, u) \/ InBox(p, r) => InBox(p, mux_expand_rect(u, r))
BY DEF Boxes, mux_expand_rect, MIN, MAX, InBox

(* Rounding moves a coordinate outwards and keeps it natural.              *)
LEMMA Rounding ==
    ASSUME NEW v \in Nat
    PROVE  /\ AlignDown(v) \in Nat /\ AlignDown(v) <= v
           /\ AlignUp(v) \in Nat /\ v <= AlignUp(v)
<1>1. v % Align \in 0 .. Align - 1 /\ v % Align <= v
  BY AlignAssumption
<1> QED
  BY <1>1, AlignAssumption DEF AlignDown, AlignUp

(* The box mux_display_refresh copies and announces contains every pixel   *)
(* of the surface that the dirty box contained.                            *)
LEMMA RefreshCovers ==
    ASSUME NEW u \in Boxes, NEW s, s.w \in Nat, s.h \in Nat
    PROVE  /\ RefreshBox(u, s) \in Boxes
           /\ \A p \in Pixels(s) : InBox(p, u) => InBox(p, RefreshBox(u, s))
<1> DEFINE b == [x1 |-> AlignDown(u.x1), y1 |-> AlignDown(u.y1),
                 x2 |-> MIN(AlignUp(u.x2), s.w), y2 |-> MIN(AlignUp(u.y2), s.h)]
<1>1. u.x1 \in Nat /\ u.y1 \in Nat /\ u.x2 \in Nat /\ u.y2 \in Nat
  BY DEF Boxes
<1>2. b \in Boxes
  BY <1>1, Rounding DEF Boxes, MIN
<1>3. \A p \in Pixels(s) : InBox(p, u) => InBox(p, b)
  <2> SUFFICES ASSUME NEW p \in Pixels(s), InBox(p, u) PROVE InBox(p, b)
    OBVIOUS
  <2>1. p[1] \in Nat /\ p[2] \in Nat /\ p[1] < s.w /\ p[2] < s.h
    BY DEF Pixels
  <2> QED
    BY <1>1, <2>1, Rounding DEF InBox, MIN
<1>4. Pixels(s) \subseteq Nat \X Nat
  BY DEF Pixels
<1> HIDE DEF b
<1>5. RefreshBox(u, s) = mux_expand_rect(b, b)
  BY DEF RefreshBox, b
<1> QED
  BY <1>2, <1>3, <1>4, <1>5, ExpandCovers

(* mux_expand_rect returns the smallest such box ("the smallest bounding   *)
(* box of the display buffer that contains all the updated screen regions  *)
(* received thus far", rdpmux.c:17-19).                                    *)
LEMMA ExpandSmallest ==
    ASSUME NEW u \in Boxes, NEW r \in Boxes, NEW b \in Boxes,
           b.x1 <= u.x1, b.x1 <= r.x1, b.y1 <= u.y1, b.y1 <= r.y1,
           u.x2 <= b.x2, r.x2 <= b.x2, u.y2 <= b.y2, r.y2 <= b.y2
    PROVE  LET e == mux_expand_rect(u, r)
           IN  b.x1 <= e.x1 /\ b.y1 <= e.y1 /\ e.x2 <= b.x2 /\ e.y2 <= b.y2
BY DEF Boxes, mux_expand_rect, MIN, MAX
-----------------------------------------------------------------------------
(* Updates and surfaces.                                                   *)

SurfacesOrNone == Surfaces \cup {NoSurface}

(* Every surface has natural dimensions, the missing one no pixels.        *)
LEMMA SurfaceFacts ==
    ASSUME NEW s \in SurfacesOrNone
    PROVE  /\ s.w \in Nat /\ s.h \in Nat
           /\ s \in Surfaces => s.format \in STRING
<1>1. Surfaces \subseteq [w : Nat \ {0}, h : Nat \ {0}, format : STRING]
  BY MuxAssumption
<1>2. CASE s \in Surfaces
  <2>1. s \in [w : Nat \ {0}, h : Nat \ {0}, format : STRING]
    BY <1>1, <1>2
  <2> QED
    BY <2>1
<1>3. CASE s = NoSurface
  <2>1. NoSurface.w = 0 /\ NoSurface.h = 0
    BY DEF NoSurface
  <2>2. s \notin Surfaces
    BY <1>1, <1>3, <2>1
  <2> QED
    BY <1>3, <2>1, <2>2
<1> QED
  BY <1>2, <1>3 DEF SurfacesOrNone

(* What an update carries, by its type.                                    *)
LEMMA UpdateFacts ==
    ASSUME NEW u \in Updates
    PROVE  /\ u.type \in {"MSGTYPE_INVALID", "DISPLAY_UPDATE", "DISPLAY_SWITCH"}
           /\ u.type = "MSGTYPE_INVALID" => u = Invalid
           /\ u.type = "DISPLAY_UPDATE" => u.box \in Boxes
           /\ u.type = "DISPLAY_SWITCH" => u.surf \in Surfaces
BY DEF Updates, Invalid

(* The updates the display thread makes are updates.                       *)
LEMMA MakeUpdate ==
    /\ Invalid \in Updates /\ Invalid.type = "MSGTYPE_INVALID"
    /\ \A b \in Boxes : /\ DisplayUpdate(b) \in Updates
                        /\ DisplayUpdate(b).type = "DISPLAY_UPDATE"
                        /\ DisplayUpdate(b).box = b
    /\ \A s \in Surfaces : /\ DisplaySwitch(s) \in Updates
                           /\ DisplaySwitch(s).type = "DISPLAY_SWITCH"
                           /\ DisplaySwitch(s).surf = s
BY DEF Updates, Invalid, DisplayUpdate, DisplaySwitch

(* The message made from an update keeps its type, and is never SHUTDOWN.  *)
LEMMA EncodeType ==
    ASSUME NEW u \in Updates, u.type # "MSGTYPE_INVALID"
    PROVE  Encode(u) \in Messages /\ Encode(u).type # "SHUTDOWN"
<1>1. CASE u.type = "DISPLAY_UPDATE"
  <2>1. u.box \in Boxes
    BY <1>1, UpdateFacts
  <2> QED
    BY <1>1, <2>1 DEF Encode, Messages, EncodeUint, Boxes
<1>2. CASE u.type = "DISPLAY_SWITCH"
  <2>1. u.surf \in Surfaces
    BY <1>2, UpdateFacts
  <2>2. u.surf.w \in Nat /\ u.surf.h \in Nat /\ u.surf.format \in STRING
    BY <2>1, SurfaceFacts DEF SurfacesOrNone
  <2> QED
    BY <1>2, <2>2 DEF Encode, Messages
<1> QED
  BY <1>1, <1>2, UpdateFacts
-----------------------------------------------------------------------------
(* The inductive invariant.                                                *)

(* The library starts with nothing dirty, queued or sent.                  *)
LEMMA InitIInv == Init => IInv
<1> SUFFICES ASSUME Init PROVE IInv
  OBVIOUS
<1>1. TypeOK
  <2>1. wire \in Seq(Messages) /\ Len(wire) <= HWM
    BY MuxAssumption, EmptySeq DEF Init
  <2>2. changes \in 0 .. MaxChanges /\ restarts \in 0 .. MaxRestarts
    BY MuxAssumption DEF Init
  <2>3. /\ dirty_update \in Updates /\ dirty_update.type # "DISPLAY_SWITCH"
        /\ out_update \in Updates /\ out \in Updates
    BY MakeUpdate DEF Init
  <2> QED
    BY <2>1, <2>2, <2>3 DEF Init, TypeOK
<1>2. SlotConsistent /\ LockHeld /\ ShmConsistent /\ ShutdownIsLast
  BY MakeUpdate DEF Init, SlotConsistent, LockHeld, ShmConsistent,
     ShutdownIsLast
<1>3. StalePixelsDirty /\ DamageNeverLost /\ SurfaceAnnounced
  BY DEF Init, StalePixelsDirty, DamageNeverLost, SurfaceAnnounced
<1> QED
  BY <1>1, <1>2, <1>3 DEF IInv

(* Absorbing a region into dirty_update forgets no pixel, old or new.      *)
LEMMA UpdateInv ==
    ASSUME IInv, NEW r \in Regions, mux_display_update(r)
    PROVE  IInv'
<1> DEFINE b == RegionBox(r[1], r[2], r[3], r[4])
           damaged == {p \in Pixels(surface) : InBox(p, b)}
<1>0. TypeOK /\ dirty_update \in Updates
  BY DEF IInv, TypeOK
<1>1. b \in Boxes
  BY MuxAssumption DEF RegionBox, Boxes
<1>2. Pixels(surface) \subseteq Nat \X Nat
  BY DEF Pixels
<1> HIDE DEF b
<1>3. /\ dirty_update' \in Updates /\ dirty_update'.type = "DISPLAY_UPDATE"
      /\ \A p \in Pixels(surface) :
             Covers(dirty_update, p) \/ InBox(p, b) => Covers(dirty_update', p)
  <2>1. CASE dirty_update.type = "MSGTYPE_INVALID"
    <3>1. dirty_update' = DisplayUpdate(b)
      BY <2>1 DEF mux_display_update, b
    <3> QED
      BY <2>1, <3>1, <1>1, MakeUpdate DEF Covers
  <2>2. CASE dirty_update.type # "MSGTYPE_INVALID"
    <3>1. dirty_update.box \in Boxes
      BY <2>2, <1>0, UpdateFacts DEF TypeOK
    <3>2. dirty_update' = DisplayUpdate(mux_expand_rect(dirty_update.box, b))
      BY <2>2 DEF mux_display_update, b
    <3>3. mux_expand_rect(dirty_update.box, b) \in Boxes
      BY <1>1, <3>1, ExpandCovers
    <3>4. \A p \in Pixels(surface) :
              InBox(p, dirty_update.box) \/ InBox(p, b)
                  => InBox(p, mux_expand_rect(dirty_update.box, b))
      BY <1>1, <1>2, <3>1, ExpandCovers
    <3> QED
      BY <3>2, <3>3, <3>4, MakeUpdate DEF Covers
  <2> QED
    BY <2>1, <2>2
<1>4. /\ stale' = stale \cup damaged /\ unsent' = unsent \cup damaged
      /\ changes' = changes + 1 /\ changes < MaxChanges
      /\ UNCHANGED <<surface, shmVars, outVars, hpc, mainVars, interrupted,
                     proc, restarts>>
  BY DEF mux_display_update, b
<1>5. TypeOK'
  BY <1>0, <1>3, <1>4, MuxAssumption
     DEF TypeOK, shmVars, outVars, mainVars
<1>6. (SlotConsistent /\ LockHeld /\ ShmConsistent /\ ShutdownIsLast)'
  BY <1>4 DEF IInv, SlotConsistent, LockHeld, ShmConsistent, ShutdownIsLast,
     shmVars, outVars, mainVars
<1>7. StalePixelsDirty'
  BY <1>0, <1>3, <1>4 DEF IInv, TypeOK, StalePixelsDirty, shmVars
<1>8. DamageNeverLost'
  <2>1. SwitchOwed' <=> SwitchOwed
    BY <1>4 DEF SwitchOwed, outVars, mainVars
  <2>2. ASSUME NEW p \in unsent', shm_buffer = "mapped", ~interrupted,
               ~SwitchOwed
        PROVE  \/ Covers(dirty_update', p)
               \/ Covers(out_update, p)
               \/ mpc = "send" /\ Covers(out, p)
    BY <1>0, <1>3, <1>4, <2>2 DEF IInv, TypeOK, DamageNeverLost
  <2> QED
    BY <1>4, <2>1, <2>2 DEF DamageNeverLost, Covers, shmVars, outVars, mainVars
<1>9. SurfaceAnnounced'
  BY <1>4 DEF IInv, SurfaceAnnounced, Running, shmVars, outVars, mainVars
<1> QED
  BY <1>5, <1>6, <1>7, <1>8, <1>9 DEF IInv

(* A switch that fails leaves the region unmapped; one that copies has an  *)
(* announcement of the whole surface ahead of it; one that overruns is the *)
(* last step of the process.                                               *)
LEMMA SwitchInv ==
    ASSUME IInv, NEW s \in Surfaces, mux_display_switch(s)
    PROVE  IInv'
<1>0. /\ surface' = s /\ changes' = changes + 1 /\ changes < MaxChanges
      /\ hpc = "idle" /\ Running
      /\ UNCHANGED <<dirty_update, outVars, mainVars, interrupted,
                     restarts>>
  BY DEF mux_display_switch, SwitchFails, SwitchCopies, SwitchOverruns
<1>1. (SlotConsistent /\ LockHeld /\ ShutdownIsLast)'
  BY <1>0 DEF IInv, SlotConsistent, LockHeld, ShutdownIsLast, outVars, mainVars
<1>2. ASSUME NEW fault \in {"shm_open", "ftruncate", "mmap"},
             SwitchFails(s, fault)
      PROVE  IInv'
  <2>1. shm_buffer = "NULL" /\ shm_buffer' = "NULL"
    BY <1>2 DEF SwitchFails, shmVars, IInv, TypeOK, ShmConsistent
  <2>2. TypeOK'
    <3>1. shmem_fd' \in {"none", "open"} /\ shm_name' \in BOOLEAN
      BY <1>2 DEF SwitchFails, IInv, TypeOK, shmVars
    <3>2. /\ stale' = Pixels(s) /\ unsent' = Pixels(s)
          /\ UNCHANGED <<hpc, proc>>
      BY <1>2 DEF SwitchFails
    <3> QED
      BY <1>0, <2>1, <3>1, <3>2, MuxAssumption
         DEF IInv, TypeOK, outVars, mainVars
  <2>3. (ShmConsistent /\ StalePixelsDirty /\ DamageNeverLost
            /\ SurfaceAnnounced)'
    BY <1>0, <1>2, <2>1 DEF SwitchFails, ShmConsistent, StalePixelsDirty,
       DamageNeverLost, SurfaceAnnounced
  <2> QED
    BY <1>1, <2>2, <2>3 DEF IInv
<1>3. CASE SwitchCopies(s)
  <2>1. TypeOK'
    BY <1>0, <1>3, MuxAssumption
       DEF SwitchCopies, IInv, TypeOK, outVars, mainVars
  <2>2. (ShmConsistent /\ StalePixelsDirty /\ DamageNeverLost
            /\ SurfaceAnnounced)'
    BY <1>0, <1>3 DEF SwitchCopies, ShmConsistent, StalePixelsDirty,
       DamageNeverLost, SurfaceAnnounced, SwitchOwed
  <2> QED
    BY <1>1, <2>1, <2>2 DEF IInv
<1>4. CASE SwitchOverruns(s)
  <2>1. TypeOK'
    BY <1>0, <1>4, MuxAssumption
       DEF SwitchOverruns, IInv, TypeOK, outVars, mainVars
  <2>2. (ShmConsistent /\ StalePixelsDirty /\ DamageNeverLost
            /\ SurfaceAnnounced)'
    BY <1>0, <1>4 DEF SwitchOverruns, IInv, ShmConsistent, StalePixelsDirty,
       DamageNeverLost, SurfaceAnnounced, Running
  <2> QED
    BY <1>1, <2>1, <2>2 DEF IInv
<1> QED
  BY <1>2, <1>3, <1>4 DEF mux_display_switch

(* Whatever the slot held is replaced by the whole current surface.        *)
LEMMA QueueSwitchInv ==
    ASSUME IInv, QueueSwitch
    PROVE  IInv'
<1>1. surface \in Surfaces
  BY DEF IInv, ShmConsistent, QueueSwitch
<1>2. /\ out_update' \in Updates /\ out_update'.type = "DISPLAY_SWITCH"
      /\ out_update'.surf = surface
  BY <1>1, MakeUpdate DEF QueueSwitch
<1>3. TypeOK'
  BY <1>2 DEF IInv, TypeOK, QueueSwitch, shmVars, mainVars
<1>4. (SlotConsistent /\ LockHeld /\ ShmConsistent /\ ShutdownIsLast)'
  BY <1>2 DEF QueueSwitch, IInv, SlotConsistent, LockHeld, ShmConsistent,
     ShutdownIsLast, shmVars, mainVars
<1>5. (StalePixelsDirty /\ DamageNeverLost /\ SurfaceAnnounced)'
  BY <1>2 DEF QueueSwitch, IInv, StalePixelsDirty, DamageNeverLost,
     SwitchOwed, SurfaceAnnounced, Covers, shmVars
<1> QED
  BY <1>3, <1>4, <1>5 DEF IInv

(* The tick rounds and cuts the dirty box: no pixel of the surface that    *)
(* was in it is lost, and the copied strip of lines contains it.           *)
LEMMA RefreshKeeps ==
    ASSUME TypeOK, dirty_update.type = "DISPLAY_UPDATE"
    PROVE  LET b == RefreshBox(dirty_update.box, surface)
           IN  /\ b \in Boxes
               /\ \A p \in Pixels(surface) :
                      Covers(dirty_update, p)
                          => InBox(p, b) /\ InStrip(p, b)
<1>1. dirty_update.box \in Boxes
  BY UpdateFacts DEF TypeOK
<1>2. surface.w \in Nat /\ surface.h \in Nat
  BY SurfaceFacts DEF TypeOK, SurfacesOrNone
<1> QED
  BY <1>1, <1>2, RefreshCovers DEF Covers, InBox, InStrip

(* mux_display_refresh defers, copies or queues the dirty box; in each     *)
(* case what it covered stays covered by the box or by the queued update.  *)
LEMMA RefreshInv ==
    ASSUME IInv, mux_display_refresh
    PROVE  IInv'
<1> DEFINE b == RefreshBox(dirty_update.box, surface)
<1>0. /\ TypeOK /\ dirty_update.type = "DISPLAY_UPDATE"
      /\ UNCHANGED <<surface, shmVars, out_lock, hpc, mainVars, interrupted,
                     changes, restarts, unsent>>
      /\ \/ RefreshDeferred(b) \/ RefreshOverruns(b)
         \/ RefreshCopies(b) \/ RefreshQueues(b)
  BY DEF IInv, mux_display_refresh, RefreshFrame
<1>1. /\ b \in Boxes
      /\ \A p \in Pixels(surface) :
             Covers(dirty_update, p) => InBox(p, b) /\ InStrip(p, b)
  BY <1>0, RefreshKeeps
<1> HIDE DEF b
<1>2. /\ DisplayUpdate(b) \in Updates
      /\ DisplayUpdate(b).type = "DISPLAY_UPDATE"
      /\ \A p \in Pixels(surface) :
             Covers(dirty_update, p) => Covers(DisplayUpdate(b), p)
  BY <1>1, MakeUpdate DEF Covers
<1>3. (LockHeld /\ ShmConsistent /\ ShutdownIsLast)'
  BY <1>0 DEF IInv, LockHeld, ShmConsistent, ShutdownIsLast, shmVars, mainVars
<1>4. CASE RefreshQueues(b)
  <2>1. TypeOK'
    BY <1>0, <1>2, <1>4, MakeUpdate
       DEF RefreshQueues, TypeOK, shmVars, mainVars
  <2>2. SlotConsistent'
    BY <1>0, <1>2, <1>4 DEF RefreshQueues, IInv, SlotConsistent, mainVars
  <2>3. StalePixelsDirty'
    <3>1. ASSUME shm_buffer = "mapped", NEW p \in stale PROVE InStrip(p, b)
      BY <1>0, <1>1, <3>1 DEF IInv, StalePixelsDirty, TypeOK
    <3> QED
      BY <1>0, <1>4, <3>1 DEF RefreshQueues, StalePixelsDirty, shmVars
  <2>4. DamageNeverLost'
    <3> SUFFICES ASSUME shm_buffer = "mapped", ~interrupted
                 PROVE  \/ SwitchOwed'
                        \/ \A p \in unsent :
                               \/ Covers(out_update', p)
                               \/ mpc = "send" /\ Covers(out, p)
      BY <1>0 DEF DamageNeverLost, Covers, shmVars, mainVars
    <3>1. CASE SwitchOwed
      BY <1>0, <1>4, <3>1 DEF RefreshQueues, SwitchOwed, mainVars
    <3>2. CASE ~SwitchOwed
      BY <1>0, <1>2, <1>4, <3>2
         DEF RefreshQueues, IInv, DamageNeverLost, TypeOK, Covers
    <3> QED
      BY <3>1, <3>2
  <2>5. SurfaceAnnounced'
    BY <1>0, <1>2, <1>4 DEF RefreshQueues, IInv, SurfaceAnnounced, Running,
       shmVars, mainVars
  <2> QED
    BY <1>3, <2>1, <2>2, <2>3, <2>4, <2>5 DEF IInv
<1>5. CASE RefreshDeferred(b) \/ RefreshOverruns(b) \/ RefreshCopies(b)
  <2>0. /\ dirty_update' = DisplayUpdate(b) /\ UNCHANGED <<out_update, out_ready>>
        /\ stale' \subseteq stale
        /\ proc' = proc \/ proc' = "crashed"
    BY <1>5 DEF RefreshDeferred, RefreshOverruns, RefreshCopies
  <2>1. TypeOK'
    BY <1>0, <1>2, <2>0 DEF TypeOK, shmVars, mainVars
  <2>2. SlotConsistent'
    BY <1>0, <2>0 DEF IInv, SlotConsistent, mainVars
  <2>3. StalePixelsDirty'
    BY <1>0, <1>2, <2>0 DEF IInv, TypeOK, StalePixelsDirty, shmVars
  <2>4. DamageNeverLost'
    <3>1. SwitchOwed' <=> SwitchOwed
      BY <1>0, <2>0 DEF SwitchOwed, mainVars
    <3>2. ASSUME NEW p \in unsent, Covers(dirty_update, p)
          PROVE  Covers(dirty_update', p)
      BY <1>0, <1>2, <2>0, <3>2 DEF TypeOK
    <3> QED
      BY <1>0, <2>0, <3>1, <3>2
         DEF IInv, DamageNeverLost, Covers, shmVars, mainVars
  <2>5. SurfaceAnnounced'
    BY <1>0, <2>0 DEF IInv, SurfaceAnnounced, Running, shmVars, mainVars
  <2> QED
    BY <1>3, <2>1, <2>2, <2>3, <2>4, <2>5 DEF IInv
<1> QED
  BY <1>0, <1>4, <1>5
-----------------------------------------------------------------------------
(* The main loop.                                                          *)

(* mux_mainloop takes out_lock.                                            *)
LEMMA LockInv ==
    ASSUME IInv, MainLock
    PROVE  IInv'
<1>1. TypeOK'
  BY DEF IInv, TypeOK, MainLock, shmVars
<1>2. (SlotConsistent /\ LockHeld /\ ShmConsistent /\ ShutdownIsLast)'
  BY DEF IInv, MainLock, SlotConsistent, LockHeld, ShmConsistent,
     ShutdownIsLast, shmVars
<1>3. (StalePixelsDirty /\ DamageNeverLost /\ SurfaceAnnounced)'
  BY DEF IInv, MainLock, StalePixelsDirty, DamageNeverLost, SwitchOwed,
     SurfaceAnnounced, Running, Covers, shmVars
<1> QED
  BY <1>1, <1>2, <1>3 DEF IInv

(* The update moves from the slot to the local copy; a switch that moves   *)
(* is, by SurfaceAnnounced, the one for the current surface unless a newer *)
(* one is about to be queued.                                              *)
LEMMA TakeInv ==
    ASSUME IInv, MainTake
    PROVE  IInv'
<1>0. /\ Running /\ mpc = "take" /\ out_ready' = FALSE /\ out_lock' = "free"
      /\ UNCHANGED <<surface, shmVars, dirty_update, hpc, wire, lastSwitch,
                     interrupted, proc, changes, restarts, stale,
                     unsent>>
  BY DEF MainTake
<1>1. Invalid \in Updates /\ Invalid.type = "MSGTYPE_INVALID"
  BY MakeUpdate
<1>2. /\ TypeOK /\ SlotConsistent
      /\ out_ready <=> out_update.type # "MSGTYPE_INVALID"
      /\ out.type = "MSGTYPE_INVALID" /\ out_update \in Updates
  BY <1>0 DEF IInv, SlotConsistent, TypeOK
<1>3. (ShmConsistent /\ StalePixelsDirty)'
  BY <1>0 DEF IInv, ShmConsistent, StalePixelsDirty, shmVars
<1>4. CASE out_ready
  <2>0. out' = out_update /\ out_update' = Invalid /\ mpc' = "send"
    BY <1>2, <1>4 DEF MainTake
  <2>1. TypeOK'
    BY <1>0, <1>1, <1>2, <2>0 DEF TypeOK, shmVars
  <2>2. (SlotConsistent /\ LockHeld /\ ShutdownIsLast)'
    BY <1>0, <1>1, <1>2, <1>4, <2>0
       DEF IInv, SlotConsistent, LockHeld, ShutdownIsLast
  <2>3. SurfaceAnnounced'
    BY <1>0, <1>1, <2>0 DEF IInv, SurfaceAnnounced, Running, shmVars
  <2>4. DamageNeverLost'
    <3> SUFFICES ASSUME shm_buffer = "mapped", ~interrupted
                 PROVE  \/ SwitchOwed'
                        \/ \A p \in unsent : \/ Covers(dirty_update, p)
                                             \/ Covers(out_update, p)
      BY <1>0, <2>0 DEF DamageNeverLost, Covers, shmVars
    <3>1. CASE hpc = "queue_switch"
      BY <1>0, <3>1 DEF SwitchOwed
    <3>2. CASE hpc # "queue_switch" /\ out_update.type = "DISPLAY_SWITCH"
      <4>1. out_update.surf = surface
        BY <1>0, <1>2, <3>2 DEF IInv, SurfaceAnnounced, TypeOK
      <4> QED
        BY <1>0, <2>0, <3>2, <4>1 DEF SwitchOwed
    <3>3. CASE hpc # "queue_switch" /\ out_update.type # "DISPLAY_SWITCH"
      BY <1>0, <3>3 DEF IInv, DamageNeverLost, SwitchOwed
    <3> QED
      BY <3>1, <3>2, <3>3
  <2> QED
    BY <1>3, <2>1, <2>2, <2>3, <2>4 DEF IInv
<1>5. CASE ~out_ready
  <2>0. out' = Invalid /\ out_update' = out_update /\ mpc' = "poll"
    BY <1>5 DEF MainTake
  <2>1. TypeOK'
    BY <1>0, <1>1, <1>2, <2>0 DEF TypeOK, shmVars
  <2>2. (SlotConsistent /\ LockHeld /\ ShutdownIsLast)'
    BY <1>0, <1>1, <1>2, <1>5, <2>0
       DEF IInv, SlotConsistent, LockHeld, ShutdownIsLast
  <2>3. (SurfaceAnnounced /\ DamageNeverLost)'
    BY <1>0, <2>0 DEF IInv, SurfaceAnnounced, DamageNeverLost, SwitchOwed,
       Running, Covers, shmVars
  <2> QED
    BY <1>3, <2>1, <2>2, <2>3 DEF IInv
<1> QED
  BY <1>2, <1>4, <1>5 DEF TypeOK

(* Sending.  A change that the sent message covers and that the region     *)
(* shows is accounted for; one that the region does not show yet is, by    *)
(* StalePixelsDirty, still in the dirty box.                               *)
LEMMA SendInv ==
    ASSUME IInv, MainSend
    PROVE  IInv'
<1>0. /\ Running /\ mpc = "send" /\ mpc' = "poll" /\ out' = Invalid
      /\ UNCHANGED <<surface, shmVars, dirty_update, outVars, hpc,
                     interrupted, proc, changes, restarts, stale>>
  BY DEF MainSend
<1>1. Invalid \in Updates /\ Invalid.type = "MSGTYPE_INVALID"
  BY MakeUpdate
<1>2. /\ TypeOK /\ wire \in Seq(Messages) /\ Len(wire) \in Nat
      /\ out \in Updates
      /\ out.type \in {"DISPLAY_UPDATE", "DISPLAY_SWITCH"}
  BY <1>0, UpdateFacts, LenProperties DEF IInv, TypeOK, SlotConsistent
<1>3. (SlotConsistent /\ LockHeld /\ ShmConsistent /\ StalePixelsDirty)'
  BY <1>0, <1>1 DEF IInv, SlotConsistent, LockHeld, ShmConsistent,
     StalePixelsDirty, shmVars, outVars
<1>4. SendUpdate
  BY DEF MainSend
<1>5. IInv'
  <2>1. Encode(out) \in Messages /\ Encode(out).type # "SHUTDOWN"
    BY <1>2, EncodeType
  <2>2. /\ wire' \in Seq(Messages) /\ Len(wire') = Len(wire) + 1
        /\ \A i \in 1 .. Len(wire) : wire'[i] = wire[i]
        /\ wire'[Len(wire) + 1] = Encode(out)
    BY <1>2, <1>4, <2>1, AppendProperties DEF SendUpdate
  <2>3. out.type = "DISPLAY_SWITCH" => out.surf \in Surfaces
    BY <1>2, UpdateFacts
  <2>4. /\ lastSwitch' \in Surfaces \cup {NoSurface}
        /\ unsent' \subseteq unsent /\ Len(wire') <= HWM
    BY <1>2, <1>4, <2>2, <2>3, MuxAssumption DEF SendUpdate, TypeOK
  <2>5. TypeOK'
    BY <1>0, <1>1, <1>2, <2>2, <2>4 DEF TypeOK, shmVars, outVars
  <2>6. ShutdownIsLast'
    <3>1. \A i \in 1 .. Len(wire) : wire[i].type # "SHUTDOWN"
      BY <1>0 DEF IInv, ShutdownIsLast
    <3>2. \A i \in 1 .. Len(wire') : wire'[i].type # "SHUTDOWN"
      BY <1>2, <2>1, <2>2, <3>1
    <3> QED
      BY <3>2 DEF ShutdownIsLast
  <2>7. SurfaceAnnounced'
    BY <1>0, <1>2, <1>4
       DEF SendUpdate, IInv, SurfaceAnnounced, Running, shmVars, outVars
  <2>8. DamageNeverLost'
    <3> SUFFICES ASSUME shm_buffer = "mapped", ~interrupted
                 PROVE  \/ SwitchOwed'
                        \/ \A p \in unsent' : \/ Covers(dirty_update, p)
                                              \/ Covers(out_update, p)
      BY <1>0 DEF DamageNeverLost, Covers, shmVars, outVars
    <3>1. \A p \in stale : Covers(dirty_update, p)
      BY DEF IInv, StalePixelsDirty
    <3>2. CASE hpc = "queue_switch" \/ out_update.type = "DISPLAY_SWITCH"
      BY <1>0, <3>2 DEF SwitchOwed, outVars
    <3>3. CASE /\ ~(hpc = "queue_switch" \/ out_update.type = "DISPLAY_SWITCH")
               /\ out.type = "DISPLAY_SWITCH" /\ out.surf = surface
      BY <1>4, <3>1, <3>3 DEF SendUpdate
    <3>4. CASE /\ ~(hpc = "queue_switch" \/ out_update.type = "DISPLAY_SWITCH")
               /\ ~(out.type = "DISPLAY_SWITCH" /\ out.surf = surface)
      <4>1. \A p \in unsent : \/ Covers(dirty_update, p)
                              \/ Covers(out_update, p)
                              \/ Covers(out, p)
        BY <3>4 DEF IInv, DamageNeverLost, SwitchOwed
      <4> QED
        BY <1>2, <1>4, <2>4, <3>1, <4>1 DEF SendUpdate, Covers
    <3> QED
      BY <3>2, <3>3, <3>4
  <2> QED
    BY <1>3, <2>5, <2>6, <2>7, <2>8 DEF IInv
<1> QED
  BY <1>5

(* Steps that touch neither the update slot nor the pixels.                *)
LEMMA PollInv ==
    ASSUME IInv, MainPoll
    PROVE  IInv'
<1>1. mpc = "poll" /\ mpc' \in {"shutdown", "lock"}
  BY DEF MainPoll
<1>2. TypeOK'
  BY <1>1 DEF IInv, TypeOK, MainPoll, shmVars, outVars
<1>3. (SlotConsistent /\ LockHeld /\ ShmConsistent /\ ShutdownIsLast)'
  BY <1>1 DEF IInv, MainPoll, SlotConsistent, LockHeld, ShmConsistent,
     ShutdownIsLast, shmVars, outVars
<1>4. (StalePixelsDirty /\ DamageNeverLost /\ SurfaceAnnounced)'
  BY <1>1 DEF IInv, MainPoll, StalePixelsDirty, DamageNeverLost, SwitchOwed,
     SurfaceAnnounced, Running, Covers, shmVars, outVars
<1> QED
  BY <1>2, <1>3, <1>4 DEF IInv

(* SHUTDOWN goes to the end of the socket's queue.                         *)
LEMMA ShutdownInv ==
    ASSUME IInv, mux_send_shutdown_msg
    PROVE  IInv'
<1>0. /\ mpc = "shutdown" /\ mpc' = "destroy"
      /\ UNCHANGED <<surface, shmVars, dirty_update, outVars, hpc, out,
                     lastSwitch, interrupted, proc, changes,
                     restarts, stale, unsent>>
  BY DEF mux_send_shutdown_msg
<1>1. /\ wire \in Seq(Messages) /\ Len(wire) \in Nat /\ Len(wire) <= HWM
      /\ \A i \in 1 .. Len(wire) : wire[i].type # "SHUTDOWN"
  BY <1>0, LenProperties DEF IInv, TypeOK, ShutdownIsLast
<1>2. /\ wire' \in Seq(Messages) /\ Len(wire') <= HWM /\ Len(wire') \in Nat
      /\ \A i \in 1 .. Len(wire') : wire'[i].type = "SHUTDOWN" => i = Len(wire')
  <2>1. Len(wire) < HWM /\ wire' = Append(wire, ShutdownMsg)
    BY DEF mux_send_shutdown_msg
  <2>2. ShutdownMsg \in Messages
    BY DEF Messages
  <2>3. /\ wire' \in Seq(Messages) /\ Len(wire') = Len(wire) + 1
        /\ \A i \in 1 .. Len(wire) : wire'[i] = wire[i]
    BY <1>1, <2>1, <2>2, AppendProperties
  <2> QED
    BY <1>1, <2>1, <2>3, MuxAssumption
<1>3. TypeOK'
  BY <1>0, <1>2 DEF IInv, TypeOK, shmVars, outVars
<1>4. (SlotConsistent /\ LockHeld /\ ShmConsistent /\ ShutdownIsLast)'
  BY <1>0, <1>2 DEF IInv, SlotConsistent, LockHeld, ShmConsistent,
     ShutdownIsLast, shmVars, outVars
<1>5. (StalePixelsDirty /\ DamageNeverLost /\ SurfaceAnnounced)'
  BY <1>0 DEF IInv, StalePixelsDirty, DamageNeverLost, SwitchOwed,
     SurfaceAnnounced, Running, Covers, shmVars, outVars
<1> QED
  BY <1>3, <1>4, <1>5 DEF IInv

(* zsock_destroy keeps a prefix of the queue.                              *)
LEMMA DestroyInv ==
    ASSUME IInv, MainDestroy
    PROVE  IInv'
<1>0. /\ mpc = "destroy" /\ mpc' = "done"
      /\ UNCHANGED <<surface, shmVars, dirty_update, outVars, hpc, out,
                     lastSwitch, interrupted, proc, changes,
                     restarts, stale, unsent>>
  BY DEF MainDestroy
<1>1. /\ wire \in Seq(Messages) /\ Len(wire) \in Nat /\ Len(wire) <= HWM
      /\ \A i \in 1 .. Len(wire) : wire[i].type = "SHUTDOWN" => i = Len(wire)
      /\ \A i \in 1 .. Len(wire) : wire[i] \in Messages
  BY LenProperties, ElementOfSeq DEF IInv, TypeOK, ShutdownIsLast
<1>2. PICK k \in 0 .. Len(wire) : wire' = SubSeq(wire, 1, k)
  BY DEF MainDestroy
<1>3. /\ wire' \in Seq(Messages) /\ Len(wire') = k
      /\ \A i \in 1 .. k : wire'[i] = wire[i]
  <2>1. \A i \in 1 .. k : wire[i] \in Messages
    BY <1>1
  <2>2. SubSeq(wire, 1, k) \in Seq(Messages)
    BY <1>1, <2>1, SubSeqProperties
  <2>3. Len(SubSeq(wire, 1, k)) = IF 1 <= k THEN k - 1 + 1 ELSE 0
    BY <1>1, <2>1, SubSeqProperties
  <2>4. \A i \in 1 .. k - 1 + 1 : SubSeq(wire, 1, k)[i] = wire[1 + i - 1]
    BY <1>1, <2>1, SubSeqProperties
  <2> QED
    BY <1>1, <1>2, <2>2, <2>3, <2>4
<1>4. TypeOK'
  BY <1>0, <1>1, <1>3, MuxAssumption DEF IInv, TypeOK, shmVars, outVars
<1>5. ShutdownIsLast'
  BY <1>0, <1>1, <1>3 DEF ShutdownIsLast
<1>6. (SlotConsistent /\ LockHeld /\ ShmConsistent)'
  BY <1>0 DEF IInv, SlotConsistent, LockHeld, ShmConsistent, shmVars, outVars
<1>7. (StalePixelsDirty /\ DamageNeverLost /\ SurfaceAnnounced)'
  BY <1>0 DEF IInv, StalePixelsDirty, DamageNeverLost, SwitchOwed,
     SurfaceAnnounced, Running, Covers, shmVars, outVars
<1> QED
  BY <1>4, <1>5, <1>6, <1>7 DEF IInv
-----------------------------------------------------------------------------
(* The environment.                                                        *)

(* A signal raises the flag, or ends the process.                          *)
LEMMA HandlerInv ==
    ASSUME IInv, mux_handler
    PROVE  IInv'
<1>0. /\ \/ UNCHANGED mainVars
         \/ /\ mpc = "send" /\ mpc' = "poll" /\ out' = Invalid
            /\ UNCHANGED <<wire, lastSwitch>>
      /\ interrupted' = TRUE /\ proc' \in {"running", "killed"}
      /\ UNCHANGED <<surface, shmVars, dirty_update, outVars, hpc,
                     changes, restarts, stale, unsent>>
  BY DEF mux_handler, SendInterrupted
<1>1. Invalid \in Updates /\ Invalid.type = "MSGTYPE_INVALID"
  BY MakeUpdate
<1>2. TypeOK'
  BY <1>0, <1>1 DEF IInv, TypeOK, shmVars, outVars, mainVars
<1>3. (SlotConsistent /\ LockHeld /\ ShmConsistent /\ ShutdownIsLast)'
  BY <1>0, <1>1 DEF IInv, SlotConsistent, LockHeld, ShmConsistent,
     ShutdownIsLast, shmVars, outVars, mainVars
<1>4. (StalePixelsDirty /\ DamageNeverLost /\ SurfaceAnnounced)'
  BY <1>0 DEF IInv, StalePixelsDirty, DamageNeverLost,
     SurfaceAnnounced, shmVars
<1> QED
  BY <1>2, <1>3, <1>4 DEF IInv

(* The server takes the oldest message.                                    *)
LEMMA ReceiveInv ==
    ASSUME IInv, PeerReceive
    PROVE  IInv'
<1>0. UNCHANGED <<surface, shmVars, dirty_update, outVars, hpc, mpc, out,
                  lastSwitch, interrupted, proc, changes, restarts,
                  stale, unsent>>
  BY DEF PeerReceive
<1>1. wire \in Seq(Messages) /\ Len(wire) \in Nat /\ Len(wire) <= HWM
  BY LenProperties DEF IInv, TypeOK
<1>2. /\ wire' \in Seq(Messages) /\ Len(wire') = Len(wire) - 1
      /\ \A i \in 1 .. Len(wire') : wire'[i] = wire[i + 1]
  BY <1>1, HeadTailProperties DEF PeerReceive
<1>3. TypeOK'
  BY <1>0, <1>1, <1>2, MuxAssumption DEF IInv, TypeOK, shmVars, outVars
<1>4. ShutdownIsLast'
  BY <1>0, <1>1, <1>2 DEF IInv, ShutdownIsLast
<1>5. (SlotConsistent /\ LockHeld /\ ShmConsistent)'
  BY <1>0 DEF IInv, SlotConsistent, LockHeld, ShmConsistent, shmVars, outVars
<1>6. (StalePixelsDirty /\ DamageNeverLost /\ SurfaceAnnounced)'
  BY <1>0 DEF IInv, StalePixelsDirty, DamageNeverLost, SwitchOwed,
     SurfaceAnnounced, Running, Covers, shmVars, outVars
<1> QED
  BY <1>3, <1>4, <1>5, <1>6 DEF IInv

(* A restarted process knows of no damage yet.                             *)
LEMMA RestartInv ==
    ASSUME IInv, Restart
    PROVE  IInv'
<1>1. TypeOK'
  <2>1. wire' \in Seq(Messages) /\ Len(wire') <= HWM
    BY MuxAssumption, EmptySeq DEF Restart
  <2>2. changes' \in 0 .. MaxChanges /\ restarts' \in 0 .. MaxRestarts
    BY MuxAssumption DEF Restart, IInv, TypeOK
  <2>3. /\ dirty_update' \in Updates /\ dirty_update'.type # "DISPLAY_SWITCH"
        /\ out_update' \in Updates /\ out' \in Updates
    BY MakeUpdate DEF Restart
  <2> QED
    BY <2>1, <2>2, <2>3 DEF Restart, IInv, TypeOK
<1>2. (SlotConsistent /\ LockHeld /\ ShmConsistent /\ ShutdownIsLast)'
  BY MakeUpdate DEF Restart, SlotConsistent, LockHeld, ShmConsistent,
     ShutdownIsLast
<1>3. (StalePixelsDirty /\ DamageNeverLost /\ SurfaceAnnounced)'
  BY DEF Restart, StalePixelsDirty, DamageNeverLost, SurfaceAnnounced
<1> QED
  BY <1>1, <1>2, <1>3 DEF IInv

(* Steps of the rest of the hypervisor.                                    *)
LEMMA StutterInv ==
    ASSUME IInv, UNCHANGED vars
    PROVE  IInv'
<1>1. TypeOK'
  BY DEF IInv, TypeOK, vars, shmVars, outVars, mainVars
<1>2. (SlotConsistent /\ LockHeld /\ ShmConsistent /\ ShutdownIsLast)'
  BY DEF IInv, vars, SlotConsistent, LockHeld, ShmConsistent,
     ShutdownIsLast, shmVars, outVars, mainVars
<1>3. (StalePixelsDirty /\ DamageNeverLost /\ SurfaceAnnounced)'
  BY DEF IInv, vars, StalePixelsDirty, DamageNeverLost, SwitchOwed,
     SurfaceAnnounced, Running, Covers, shmVars, outVars, mainVars
<1> QED
  BY <1>1, <1>2, <1>3 DEF IInv
-----------------------------------------------------------------------------
(* The results.                                                            *)

(* The inductive invariant holds of every interleaving of the display      *)
(* thread, mux_mainloop, signals and restarts.                             *)
THEOREM Invariance == Spec => []IInv
<1>1. Init => IInv
  BY InitIInv
<1>2. IInv /\ [Next]_vars => IInv'
  <2> SUFFICES ASSUME IInv, [Next]_vars PROVE IInv'
    OBVIOUS
  <2>1. CASE \E r \in Regions : mux_display_update(r)
    BY <2>1, UpdateInv
  <2>2. CASE \E s \in Surfaces : mux_display_switch(s)
    BY <2>2, SwitchInv
  <2>3. CASE QueueSwitch
    BY <2>3, QueueSwitchInv
  <2>4. CASE mux_display_refresh
    BY <2>4, RefreshInv
  <2>5. CASE mux_mainloop
    BY <2>5, LockInv, TakeInv, SendInv, PollInv, ShutdownInv, DestroyInv
       DEF mux_mainloop
  <2>6. CASE mux_handler \/ PeerReceive \/ Restart
    BY <2>6, HandlerInv, ReceiveInv, RestartInv
  <2>7. CASE UNCHANGED vars
    BY <2>7, StutterInv
  <2> QED
    BY <2>1, <2>2, <2>3, <2>4, <2>5, <2>6, <2>7 DEF Next
<1> QED
  BY <1>1, <1>2, PTL DEF Spec

(* Every variable of the library keeps its type: the arithmetic on the     *)
(* dirty box never leaves the naturals, and the socket never holds more    *)
(* than its high-water mark.                                               *)
THEOREM TypeCorrect == Spec => []TypeOK
<1>1. IInv => TypeOK
  BY DEF IInv
<1> QED
  BY <1>1, Invariance, PTL

(* The flag and the type of the shared update slot agree at every step of  *)
(* both threads.                                                           *)
THEOREM SlotSafe == Spec => []SlotConsistent
<1>1. IInv => SlotConsistent
  BY DEF IInv
<1> QED
  BY <1>1, Invariance, PTL

(* A pixel that the shared region does not show yet is always inside the   *)
(* pending dirty box, for screens and alignments of any size.              *)
THEOREM RegionCatchesUp == Spec => []StalePixelsDirty
<1>1. IInv => StalePixelsDirty
  BY DEF IInv
<1> QED
  BY <1>1, Invariance, PTL

(* No change of the screen is forgotten between mux_display_update and the *)
(* socket.                                                                 *)
THEOREM NoDamageLost == Spec => []DamageNeverLost
<1>1. IInv => DamageNeverLost
  BY DEF IInv
<1> QED
  BY <1>1, Invariance, PTL

(* The last surface announced, or about to be, is the one displayed.       *)
THEOREM LastSwitchWins == Spec => []SurfaceAnnounced
<1>1. IInv => SurfaceAnnounced
  BY DEF IInv
<1> QED
  BY <1>1, Invariance, PTL

(* Nothing follows SHUTDOWN on the socket.                                 *)
THEOREM NothingAfterShutdown == Spec => []ShutdownIsLast
<1>1. IInv => ShutdownIsLast
  BY DEF IInv
<1> QED
  BY <1>1, Invariance, PTL
=============================================================================
