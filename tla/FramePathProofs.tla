-------------------------- MODULE FramePathProofs --------------------------
(***************************************************************************)
(* Proofs about FramePath, for every size of screen, every set of switches *)
(* and regions of any size, any size that a listener may happen to hold    *)
(* before its first message, and every number of messages.                 *)
(***************************************************************************)
EXTENDS FramePath, SequenceTheorems, TLAPS

(* Rectangles consist of pixels.                                           *)
LEMMA RectPixels ==
    /\ \A b : BoxPixels(b) \subseteq Pixels
    /\ \A s : SizePixels(s) \subseteq Pixels
BY DEF BoxPixels, SizePixels, Rect

(* A rectangle that contains a region contains its extents.                *)
LEMMA ExtentsInside ==
    ASSUME NEW left \in Int, NEW top \in Int, NEW right \in Int,
           NEW bottom \in Int, NEW r,
           r \subseteq Rect(left, top, right, bottom)
    PROVE  Extents(r) \subseteq Rect(left, top, right, bottom)
<1> SUFFICES ASSUME NEW p \in Extents(r)
             PROVE  p \in Rect(left, top, right, bottom)
  OBVIOUS
<1>1. p \in Pixels /\ \A q \in r : q \in Pixels
  BY DEF Extents, Rect
<1>2. Cols \in Int /\ Rows \in Int
  BY FrameAssumption
<1>3. \A q \in Pixels : q[1] \in Int /\ q[2] \in Int
  BY <1>2 DEF Pixels
<1> QED
  BY <1>1, <1>3 DEF Extents, Rect

(* The extents of a region of the surface lie in the surface.              *)
LEMMA ExtentsInSurface ==
    ASSUME NEW s \in Size, NEW r, r \subseteq SizePixels(s)
    PROVE  Extents(r) \subseteq SizePixels(s)
<1>1. s.w % 65536 \in Int /\ s.h % 65536 \in Int
  BY FrameAssumption DEF Size
<1> HIDE DEF Size
<1> QED
  BY <1>1, ExtentsInside DEF SizePixels

(* What a message carries.                                                 *)
LEMMA MessageFacts ==
    ASSUME NEW m \in Messages
    PROVE  /\ m[1] = "update" => m[2] \in Boxes
           /\ m[1] = "switch" => m[2] \in Switches
BY DEF Messages

(* The messages that the hypervisor sends are messages, and the queue      *)
(* keeps to them.                                                          *)
LEMMA InboxFacts ==
    ASSUME NEW q \in Seq(Messages)
    PROVE  /\ \A b \in Boxes : Append(q, <<"update", b>>) \in Seq(Messages)
           /\ \A s \in Switches : Append(q, <<"switch", s>>) \in Seq(Messages)
           /\ Append(q, <<"shutdown">>) \in Seq(Messages)
           /\ q # <<>> => Head(q) \in Messages /\ Tail(q) \in Seq(Messages)
<1>1. /\ \A b \in Boxes : <<"update", b>> \in Messages
      /\ \A s \in Switches : <<"switch", s>> \in Messages
      /\ <<"shutdown">> \in Messages
  BY DEF Messages
<1>2. \A m \in Messages : Append(q, m) \in Seq(Messages)
  OBVIOUS
<1>3. q # <<>> => Head(q) \in Messages /\ Tail(q) \in Seq(Messages)
  BY HeadTailProperties
<1> QED
  BY <1>1, <1>2, <1>3

(* The size of a switch.                                                   *)
LEMMA SwitchFacts ==
    ASSUME NEW s \in Switches \cup {NoSurface}
    PROVE  s[2] \in Nat /\ s[3] \in Nat
<1>1. Switches \subseteq Nat \X Nat \X Nat
  BY FrameAssumption
<1>2. CASE s \in Switches
  <2>1. s \in Nat \X Nat \X Nat
    BY <1>1, <1>2
  <2> QED
    BY <2>1
<1>3. CASE s = NoSurface
  BY <1>3 DEF NoSurface
<1> QED
  BY <1>2, <1>3
-----------------------------------------------------------------------------
(* Types.                                                                  *)

LEMMA TypeInit == Init => TypeOK
<1> SUFFICES ASSUME Init PROVE TypeOK
  OBVIOUS
<1>1. /\ MaxW \in Nat /\ MaxH \in Nat /\ MaxSwitches \in Nat
      /\ MaxUpdates \in Nat
      /\ JunkSizes \subseteq Nat \X Nat
  BY FrameAssumption
<1>2. size \in Size
  BY <1>1 DEF Init, Size
<1>3. Full \in Size
  BY <1>1 DEF Full, Size
<1>4. inbox \in Seq(Messages)
  BY EmptySeq DEF Init
<1>5. sent \in [switches : 0 .. MaxSwitches, updates : 0 .. MaxUpdates]
  BY <1>1 DEF Init
<1>6. worker \in [todo : SUBSET {"width", "height", "format"},
                  switch : Switches \cup {NoSurface}]
  BY DEF Init, Idle
<1>7. junk \subseteq {"size", "monitor", "surface", "src"}
                         \X {"width", "height"}
  BY DEF Init
<1> QED
  BY <1>2, <1>3, <1>4, <1>5, <1>6, <1>7 DEF Init, TypeOK

(* The hypervisor and the clients.                                         *)
LEMMA HypervisorTypes == TypeOK /\ (Hypervisor \/ Client) => TypeOK'
<1> SUFFICES ASSUME TypeOK, Hypervisor \/ Client PROVE TypeOK'
  OBVIOUS
<1> USE DEF TypeOK
<1>0. MaxSwitches \in Nat /\ MaxUpdates \in Nat
  BY FrameAssumption
<1>1. CASE DrawUpdate
  <2>1. PICK b \in Boxes : /\ inbox' = Append(inbox, <<"update", b>>)
                           /\ Changed(BoxPixels(b))
    BY <1>1 DEF DrawUpdate
  <2>2. inbox' \in Seq(Messages)
    BY <2>1, InboxFacts
  <2>3. /\ stale' \subseteq Pixels /\ unseen' \subseteq Pixels
        /\ torn' \subseteq Pixels
    BY <2>1, RectPixels DEF Changed
  <2>4. sent' \in [switches : 0 .. MaxSwitches, updates : 0 .. MaxUpdates]
    BY <1>0, <1>1 DEF DrawUpdate
  <2> QED
    BY <1>1, <2>2, <2>3, <2>4 DEF DrawUpdate, listenerVars
<1>2. CASE DrawSwitch
  <2>1. PICK s \in Switches :
           /\ vm' = s /\ inbox' = Append(inbox, <<"switch", s>>)
           /\ Changed(SizePixels([w |-> s[2], h |-> s[3]]))
    BY <1>2 DEF DrawSwitch
  <2>2. inbox' \in Seq(Messages)
    BY <2>1, InboxFacts
  <2>3. /\ stale' \subseteq Pixels /\ unseen' \subseteq Pixels
        /\ torn' \subseteq Pixels
    BY <2>1, RectPixels DEF Changed
  <2>4. sent' \in [switches : 0 .. MaxSwitches, updates : 0 .. MaxUpdates]
    <3>1. /\ sent.switches < MaxSwitches
          /\ sent' = [sent EXCEPT !.switches = @ + 1]
      BY <1>2 DEF DrawSwitch
    <3>2. sent \in [switches : 0 .. MaxSwitches, updates : 0 .. MaxUpdates]
      OBVIOUS
    <3> QED
      BY <1>0, <3>1, <3>2
  <2>5. vm' \in Switches \cup {NoSurface}
    BY <2>1
  <2>6. UNCHANGED <<clients, shm, size, format, region, running, raised,
                    switched, worker, pc, first, monitor, surface, src,
                    invalid, source, stopEvent, quit, junk>>
    BY <1>2 DEF DrawSwitch, listenerVars
  <2> QED
    BY <2>2, <2>3, <2>4, <2>5, <2>6
<1>3. CASE SendShutdown
  <2>1. inbox' \in Seq(Messages)
    BY <1>3, InboxFacts DEF SendShutdown
  <2>2. sent' \in [switches : 0 .. MaxSwitches, updates : 0 .. MaxUpdates]
    BY <1>0, <1>3 DEF SendShutdown
  <2> QED
    BY <1>3, <2>1, <2>2 DEF SendShutdown, listenerVars, threadVars
<1>4. CASE Client
  <2>1. clients' \in BOOLEAN
    BY <1>4 DEF Client, ClientConnects, ClientLeaves
  <2>2. UNCHANGED <<vm, inbox, sent, unseen, shm, size, format, region,
                    running, raised, switched, worker, pc, first, monitor,
                    surface, src, invalid, source, torn, stopEvent, stale,
                    quit, junk>>
    BY <1>4 DEF Client, ClientConnects, ClientLeaves, vmVars, listenerVars,
       threadVars
  <2> QED
    BY <2>1, <2>2
<1> QED
  BY <1>1, <1>2, <1>3, <1>4 DEF Hypervisor

(* The worker's thread and the thread of the listener.                     *)
LEMMA ListenerTypes == TypeOK /\ (Worker \/ Listener) => TypeOK'
<1> SUFFICES ASSUME TypeOK, Worker \/ Listener PROVE TypeOK'
  OBVIOUS
<1> USE DEF TypeOK
<1>1. ASSUME NEW kind, Message(kind)
      PROVE  /\ inbox' \in Seq(Messages)
             /\ kind = "update" => Head(inbox)[2] \in Boxes
             /\ kind = "switch" => Head(inbox)[2] \in Switches
  BY <1>1, InboxFacts, MessageFacts DEF Message
<1>2. CASE processDisplayUpdate
  BY <1>1, <1>2 DEF processDisplayUpdate, Message, threadVars
<1>3. CASE processDisplaySwitch
  <2>1. inbox' \in Seq(Messages) /\ Head(inbox)[2] \in Switches
    BY <1>1, <1>3 DEF processDisplaySwitch
  <2>2. worker' \in [todo : SUBSET {"width", "height", "format"},
                     switch : Switches \cup {NoSurface}]
    BY <1>3, <2>1 DEF processDisplaySwitch
  <2>3. shm' \in {"null", "mapped"}
    BY <1>3 DEF processDisplaySwitch
  <2> QED
    BY <1>3, <2>1, <2>2, <2>3 DEF processDisplaySwitch, Message, threadVars
<1>4. CASE StoreField
  <2>1. PICK f \in worker.todo :
          /\ size' = CASE f = "width" -> [size EXCEPT !.w = worker.switch[2]]
                       [] f = "height" -> [size EXCEPT !.h = worker.switch[3]]
                       [] OTHER -> size
          /\ junk' = junk \ {<<"size", f>>}
          /\ worker' = IF worker.todo = {f} THEN Idle
                       ELSE [worker EXCEPT !.todo = @ \ {f}]
    BY <1>4 DEF StoreField
  <2>2. worker.switch[2] \in Nat /\ worker.switch[3] \in Nat
    BY SwitchFacts
  <2>3. size' \in Size
    BY <2>1, <2>2 DEF Size
  <2>4. worker' \in [todo : SUBSET {"width", "height", "format"},
                     switch : Switches \cup {NoSurface}]
    BY <2>1 DEF Idle
  <2> QED
    BY <1>4, <2>1, <2>3, <2>4 DEF StoreField, vmVars, threadVars
<1>5. CASE processShutdown
  <2>1. inbox' \in Seq(Messages)
    BY <1>1, <1>5 DEF processShutdown
  <2>2. running' \in BOOLEAN
    BY <1>5 DEF processShutdown
  <2>3. UNCHANGED <<vm, sent, clients, unseen, shm, size, format, region,
                    raised, switched, worker, pc, first, monitor, surface,
                    src, invalid, source, torn, stopEvent, stale, quit, junk>>
    BY <1>5 DEF processShutdown, Message, threadVars
  <2> QED
    BY <2>1, <2>2, <2>3
<1>6. CASE Listener
  <2>1. /\ running' \in BOOLEAN /\ raised' \in BOOLEAN
        /\ stopEvent' \in BOOLEAN /\ quit' \in BOOLEAN
    BY <1>6 DEF Listener, RunServer, Shutdown, StopServer, PostQuit,
       listenerVars
  <2>2. UNCHANGED <<vm, inbox, sent, clients, unseen, shm, size, format,
                    region, switched, worker, pc, first, monitor, surface,
                    src, invalid, source, torn, stale, junk>>
    BY <1>6 DEF Listener, RunServer, Shutdown, StopServer, PostQuit, vmVars,
       threadVars, listenerVars
  <2> QED
    BY <2>1, <2>2
<1> QED
  BY <1>2, <1>3, <1>4, <1>5, <1>6 DEF Worker

(* The subsystem's thread.                                                 *)
LEMMA SubsystemTypes == TypeOK /\ Subsystem => TypeOK'
<1> SUFFICES ASSUME TypeOK, Subsystem PROVE TypeOK'
  OBVIOUS
<1> USE DEF TypeOK, ThreadOnly, ResizeOnly, Goto, vmVars, listenerVars
<1>1. CASE TestRunning
  <2>1. first' \in BOOLEAN
    BY <1>1 DEF TestRunning
  <2> QED
    BY <1>1, <2>1 DEF TestRunning
<1>12. CASE WaitEnds \/ NotDue \/ Due
  BY <1>12 DEF WaitEnds, NotDue, Due
<1>2. CASE process_message
  BY <1>2 DEF process_message, frame_update
<1>3. CASE CompareWidth \/ CompareHeight
  BY <1>3 DEF CompareWidth, CompareHeight
<1>4. CASE MonitorBottom \/ MonitorRight
  <2>1. monitor' \in Size
    BY <1>4 DEF MonitorBottom, MonitorRight, Size
  <2>2. junk' \subseteq {"size", "monitor", "surface", "src"}
                            \X {"width", "height"}
    BY <1>4 DEF MonitorBottom, MonitorRight, Inherit
  <2> QED
    BY <1>4, <2>1, <2>2 DEF MonitorBottom, MonitorRight
<1>5. CASE shadow_screen_resize
  <2>1. junk' \subseteq {"size", "monitor", "surface", "src"}
                            \X {"width", "height"}
    <3>1. /\ junk \subseteq {"size", "monitor", "surface", "src"}
                              \X {"width", "height"}
          /\ junk' = {t \in junk : t[1] # "surface"} \cup
                       {<<"surface", f>> : f \in {g \in {"width", "height"} :
                                                   <<"monitor", g>> \in junk}}
      BY <1>5 DEF shadow_screen_resize
    <3>2. \A f \in {"width", "height"} :
             <<"surface", f>> \in {"size", "monitor", "surface", "src"}
                                    \X {"width", "height"}
      OBVIOUS
    <3> HIDE DEF TypeOK
    <3> QED
      BY <3>1, <3>2, Zenon
  <2> QED
    BY <1>5, <2>1 DEF shadow_screen_resize
<1>6. CASE SrcHeight \/ SrcWidth
  <2>1. src' \in Size
    BY <1>6 DEF SrcHeight, SrcWidth, Size
  <2>2. junk' \subseteq {"size", "monitor", "surface", "src"}
                            \X {"width", "height"}
    BY <1>6 DEF SrcHeight, SrcWidth, Inherit
  <2> QED
    BY <1>6, <2>1, <2>2 DEF SrcHeight, SrcWidth
<1>7. CASE GetRDPFormat
  BY <1>7 DEF GetRDPFormat
<1>8. CASE GetDirtyRegion
  <2>1. Damage \subseteq Pixels
    BY RectPixels DEF Damage
  <2> QED
    BY <1>8, <2>1 DEF GetDirtyRegion
<1>9. CASE image_copy
  <2>1. Extents(invalid) \subseteq Pixels
    BY DEF Extents
  <2>2. stale' \subseteq Pixels /\ unseen' \subseteq Pixels
    BY <1>9, <2>1 DEF image_copy
  <2> QED
    BY <1>9, <2>2 DEF image_copy
<1>10. CASE image_copy_fails
  BY <1>10 DEF image_copy_fails
<1>11. CASE Publish
  BY <1>11 DEF Publish, frame_update
<1> QED
  BY <1>1, <1>2, <1>3, <1>4, <1>5, <1>6, <1>7, <1>8, <1>9, <1>10, <1>11,
     <1>12
  DEF Subsystem, Resize, Frame

(* Every step keeps the types.                                             *)
LEMMA TypeStep == TypeOK /\ [Next]_vars => TypeOK'
<1>1. TypeOK /\ UNCHANGED vars => TypeOK'
  BY DEF TypeOK, vars, vmVars, listenerVars, threadVars
<1> QED
  BY <1>1, HypervisorTypes, ListenerTypes, SubsystemTypes DEF Next

(* Type correctness, with messages and an initial listener of any size:    *)
(* the region is that of one message and the regions of the frame path are *)
(* regions of the plane.                                                   *)
THEOREM FrameTypes == Spec => []TypeOK
BY TypeInit, TypeStep, PTL DEF Spec
-----------------------------------------------------------------------------
(* Safety of the copies.                                                   *)

(* What a copy is about to write lies in the surface; a switch that is     *)
(* stored, or about to be, has its region mapped.                          *)
FrameInv ==
    /\ TypeOK
    /\ pc = "copy" => invalid \subseteq SizePixels(surface)
    /\ (worker.todo # {} \/ switched) => shm = "mapped"

LEMMA FrameInit == Init => FrameInv
<1> SUFFICES ASSUME Init PROVE FrameInv
  OBVIOUS
<1>1. TypeOK
  BY TypeInit
<1>2. pc # "copy" /\ worker.todo = {} /\ ~switched
  BY DEF Init, Idle
<1> QED
  BY <1>1, <1>2 DEF FrameInv

(* A copy starts with a region that has just been cut to the surface, and  *)
(* the surface keeps its size until the copy is over.                      *)
LEMMA CopyStep ==
    FrameInv /\ Next => (pc = "copy" => invalid \subseteq SizePixels(surface))'
<1> SUFFICES ASSUME FrameInv, Next, pc' = "copy"
             PROVE  invalid' \subseteq SizePixels(surface')
  BY DEF SizePixels, Rect
<1>1. CASE GetDirtyRegion
  <2>1. invalid' = Damage /\ surface' = surface
    BY <1>1 DEF GetDirtyRegion
  <2> QED
    BY <2>1 DEF Damage
<1>2. CASE UNCHANGED <<pc, invalid, surface>>
  BY <1>2 DEF FrameInv
<1>3. Hypervisor \/ Client \/ Worker \/ Listener
         => UNCHANGED <<pc, invalid, surface>>
  BY DEF Hypervisor, DrawUpdate, DrawSwitch, SendShutdown, Client,
     ClientConnects, ClientLeaves, Worker, processDisplayUpdate,
     processDisplaySwitch, StoreField, processShutdown, Message, Listener,
     RunServer, Shutdown, StopServer, PostQuit, threadVars
<1>4. Subsystem => GetDirtyRegion
  BY DEF Subsystem, TestRunning, WaitEnds, process_message, NotDue, Due,
     Resize, CompareWidth, CompareHeight, MonitorBottom, MonitorRight,
     shadow_screen_resize, SrcHeight, SrcWidth, Frame, GetRDPFormat,
     image_copy, image_copy_fails, Publish, Goto
<1> QED
  BY <1>1, <1>2, <1>3, <1>4 DEF Next

(* A switch reaches the stores only over a region that mmap has given, and *)
(* nothing unmaps it.                                                      *)
LEMMA MappedStep ==
    FrameInv /\ Next => ((worker.todo # {} \/ switched) => shm = "mapped")'
<1> SUFFICES ASSUME FrameInv, Next
             PROVE  (worker'.todo # {} \/ switched') => shm' = "mapped"
  OBVIOUS
<1>0. (worker.todo # {} \/ switched) => shm = "mapped"
  BY DEF FrameInv
<1>1. CASE UNCHANGED <<worker, switched, shm>>
  BY <1>0, <1>1
<1>2. CASE processDisplaySwitch
  <2>1. switched' = switched
    BY <1>2 DEF processDisplaySwitch
  <2>2. shm' = "mapped" \/ UNCHANGED <<shm, worker>>
    BY <1>2 DEF processDisplaySwitch
  <2> QED
    BY <1>0, <2>1, <2>2
<1>3. CASE StoreField
  BY <1>0, <1>3 DEF StoreField
<1>4. Hypervisor \/ Client \/ Listener => UNCHANGED <<worker, switched, shm>>
  BY DEF Hypervisor, DrawUpdate, DrawSwitch, SendShutdown, Client,
     ClientConnects, ClientLeaves, Listener, RunServer, Shutdown, StopServer,
     PostQuit, listenerVars
<1>5. processDisplayUpdate \/ processShutdown
         => UNCHANGED <<worker, switched, shm>>
  BY DEF processDisplayUpdate, processShutdown
<1>6. Subsystem => UNCHANGED <<worker, switched, shm>>
  BY DEF Subsystem, TestRunning, WaitEnds, process_message, NotDue, Due,
     Resize, CompareWidth, CompareHeight, MonitorBottom, MonitorRight,
     shadow_screen_resize, SrcHeight, SrcWidth, Frame, GetRDPFormat,
     GetDirtyRegion, image_copy, image_copy_fails, Publish, ThreadOnly,
     ResizeOnly, listenerVars
<1> QED
  BY <1>1, <1>2, <1>3, <1>4, <1>5, <1>6 DEF Next, Worker

LEMMA FrameStep == FrameInv /\ [Next]_vars => FrameInv'
<1> SUFFICES ASSUME FrameInv, [Next]_vars PROVE FrameInv'
  OBVIOUS
<1>1. TypeOK'
  BY TypeStep DEF FrameInv
<1>2. CASE Next
  BY <1>1, <1>2, CopyStep, MappedStep DEF FrameInv
<1>3. CASE UNCHANGED vars
  <2>1. UNCHANGED <<pc, invalid, surface, worker, switched, shm>>
    BY <1>3 DEF vars, listenerVars, threadVars
  <2>2. SizePixels(surface)' = SizePixels(surface)
    BY <2>1 DEF SizePixels, Rect
  <2> QED
    BY <1>1, <2>1, <2>2 DEF FrameInv
<1> QED
  BY <1>2, <1>3

(* The invariant holds throughout.                                         *)
LEMMA FrameInvariant == Spec => []FrameInv
BY FrameInit, FrameStep, PTL DEF Spec

(* No copy leaves the surface: the extents of the dirty region lie in it,  *)
(* whatever sizes and regions the messages carry and whenever they come.   *)
THEOREM CopyStaysInSurface == Spec => []CopyInSurface
<1>1. FrameInv => CopyInSurface
  <2> SUFFICES ASSUME FrameInv, pc = "copy"
               PROVE  Extents(invalid) \subseteq SizePixels(surface)
    BY DEF CopyInSurface
  <2>1. surface \in Size /\ invalid \subseteq SizePixels(surface)
    BY DEF FrameInv, TypeOK
  <2> QED
    BY <2>1, ExtentsInSurface
<1> QED
  BY <1>1, FrameInvariant, PTL

(* Once a switch has been stored, a frame has memory to copy from.         *)
THEOREM CopyHasSource == Spec => []CopyFromMapped
<1>1. FrameInv => CopyFromMapped
  BY DEF FrameInv, CopyFromMapped
<1> QED
  BY <1>1, FrameInvariant, PTL

-----------------------------------------------------------------------------
(* Reads of the shared memory.                                             *)

(* Every size that is not noted as stemming from an unset listener is one  *)
(* of the sizes allowed.                                                   *)
Allowed(name, s) ==
    /\ <<name, "width">> \in junk \/ s.w <= MaxW
    /\ <<name, "height">> \in junk \/ s.h <= MaxH

JunkNoted ==
    /\ Allowed("size", size) /\ Allowed("monitor", monitor)
    /\ Allowed("surface", surface) /\ Allowed("src", src)

LEMMA JunkInit == Init => JunkNoted
<1> SUFFICES ASSUME Init PROVE JunkNoted
  OBVIOUS
<1>1. MaxW \in Nat /\ MaxH \in Nat
  BY FrameAssumption
<1>2. /\ <<"size", "width">> \in junk /\ <<"size", "height">> \in junk
      /\ <<"src", "width">> \in junk /\ <<"src", "height">> \in junk
  BY DEF Init
<1>3. monitor.w = MaxW /\ monitor.h = MaxH /\ surface = monitor
  BY DEF Init, Full
<1> QED
  BY <1>1, <1>2, <1>3 DEF JunkNoted, Allowed

(* The worker stores sizes that are allowed and drops their notes.         *)
LEMMA JunkStore ==
    ASSUME SwitchesAllowed, TypeOK, JunkNoted, StoreField
    PROVE  JunkNoted'
<1>1. PICK f \in worker.todo :
          /\ size' = CASE f = "width" -> [size EXCEPT !.w = worker.switch[2]]
                       [] f = "height" -> [size EXCEPT !.h = worker.switch[3]]
                       [] OTHER -> size
          /\ junk' = junk \ {<<"size", f>>}
  BY DEF StoreField
<1>2. f \in {"width", "height", "format"} /\ size \in Size
  BY DEF TypeOK
<1>3. worker.switch[2] <= MaxW /\ worker.switch[3] <= MaxH
  <2>1. worker.switch \in Switches \cup {NoSurface}
    BY DEF TypeOK
  <2>2. MaxW \in Nat /\ MaxH \in Nat
    BY FrameAssumption
  <2> QED
    BY <2>1, <2>2 DEF SwitchesAllowed, NoSurface
<1>4. UNCHANGED <<monitor, surface, src>>
  BY DEF StoreField, threadVars
<1>5. \A name \in {"monitor", "surface", "src"}, g \in {"width", "height"} :
         <<name, g>> \in junk' <=> <<name, g>> \in junk
  BY <1>1
<1>6. /\ <<"size", "width">> \in junk' \/ size'.w <= MaxW
      /\ <<"size", "height">> \in junk' \/ size'.h <= MaxH
  BY <1>1, <1>2, <1>3 DEF JunkNoted, Allowed, Size
<1> QED
  BY <1>4, <1>5, <1>6 DEF JunkNoted, Allowed

(* The subsystem's thread takes sizes over with their notes.               *)
LEMMA JunkResize ==
    ASSUME TypeOK, JunkNoted, Resize
    PROVE  JunkNoted'
<1> USE DEF JunkNoted, Allowed
<1>0. /\ size \in Size /\ monitor \in Size /\ surface \in Size /\ src \in Size
  BY DEF TypeOK
<1>1. CASE CompareWidth \/ CompareHeight
  <2>1. UNCHANGED <<size, monitor, surface, src, junk>>
    BY <1>1 DEF CompareWidth, CompareHeight, ThreadOnly, ResizeOnly,
       listenerVars
  <2> QED
    BY <2>1
<1>2. CASE MonitorBottom
  <2>1. /\ monitor' = [monitor EXCEPT !.h = size.h]
        /\ UNCHANGED <<size, surface, src>>
        /\ junk' = IF <<"size", "height">> \in junk
                   THEN junk \cup {<<"monitor", "height">>}
                   ELSE junk \ {<<"monitor", "height">>}
    BY <1>2 DEF MonitorBottom, Inherit, ResizeOnly, listenerVars
  <2> QED
    BY <1>0, <2>1 DEF Size
<1>3. CASE MonitorRight
  <2>1. /\ monitor' = [monitor EXCEPT !.w = size.w]
        /\ UNCHANGED <<size, surface, src>>
        /\ junk' = IF <<"size", "width">> \in junk
                   THEN junk \cup {<<"monitor", "width">>}
                   ELSE junk \ {<<"monitor", "width">>}
    BY <1>3 DEF MonitorRight, Inherit, ResizeOnly, listenerVars
  <2> QED
    BY <1>0, <2>1 DEF Size
<1>4. CASE shadow_screen_resize
  <2>1. surface' = monitor /\ UNCHANGED <<size, monitor, src>>
    BY <1>4 DEF shadow_screen_resize, ResizeOnly, listenerVars
  <2>2. \A name \in {"size", "monitor", "src"}, g \in {"width", "height"} :
           <<name, g>> \in junk' <=> <<name, g>> \in junk
    BY <1>4 DEF shadow_screen_resize
  <2>3. \A g \in {"width", "height"} :
           <<"surface", g>> \in junk' <=> <<"monitor", g>> \in junk
    BY <1>4 DEF shadow_screen_resize
  <2> QED
    BY <2>1, <2>2, <2>3
<1>5. CASE SrcHeight
  <2>1. /\ src' = [src EXCEPT !.h = size.h]
        /\ UNCHANGED <<size, monitor, surface>>
        /\ junk' = IF <<"size", "height">> \in junk
                   THEN junk \cup {<<"src", "height">>}
                   ELSE junk \ {<<"src", "height">>}
    BY <1>5 DEF SrcHeight, Inherit, ResizeOnly, listenerVars
  <2> QED
    BY <1>0, <2>1 DEF Size
<1>6. CASE SrcWidth
  <2>1. /\ src' = [src EXCEPT !.w = size.w]
        /\ UNCHANGED <<size, monitor, surface>>
        /\ junk' = IF <<"size", "width">> \in junk
                   THEN junk \cup {<<"src", "width">>}
                   ELSE junk \ {<<"src", "width">>}
    BY <1>6 DEF SrcWidth, Inherit, ResizeOnly, listenerVars
  <2> QED
    BY <1>0, <2>1 DEF Size
<1> QED
  BY <1>1, <1>2, <1>3, <1>4, <1>5, <1>6 DEF Resize

LEMMA JunkStep ==
    ASSUME SwitchesAllowed, TypeOK, JunkNoted, [Next]_vars
    PROVE  JunkNoted'
<1>1. CASE UNCHANGED <<size, monitor, surface, src, junk>>
  BY <1>1 DEF JunkNoted, Allowed
<1>2. Hypervisor \/ Client \/ Listener \/ UNCHANGED vars
         => UNCHANGED <<size, monitor, surface, src, junk>>
  BY DEF Hypervisor, DrawUpdate, DrawSwitch, SendShutdown, Client,
     ClientConnects, ClientLeaves, Listener, RunServer, Shutdown, StopServer,
     PostQuit, vars, listenerVars, threadVars
<1>3. processDisplayUpdate \/ processDisplaySwitch \/ processShutdown
         => UNCHANGED <<size, monitor, surface, src, junk>>
  BY DEF processDisplayUpdate, processDisplaySwitch, processShutdown, Message,
     threadVars
<1>4. TestRunning \/ WaitEnds \/ process_message \/ NotDue \/ Due \/ Frame
         => UNCHANGED <<size, monitor, surface, src, junk>>
  BY DEF TestRunning, WaitEnds, process_message, NotDue, Due, Frame,
     GetRDPFormat, GetDirtyRegion, image_copy, image_copy_fails, Publish,
     ThreadOnly, ResizeOnly, listenerVars
<1> QED
  BY <1>1, <1>2, <1>3, <1>4, JunkStore, JunkResize
  DEF Next, Worker, Subsystem

(* The pixel of a screen of the largest size, at any distance of the rows  *)
(* up to its width, lies in a region of that size.                         *)
LEMMA OffsetInside ==
    ASSUME NEW W \in Nat, NEW H \in Nat, NEW d \in Nat, d <= W,
           NEW x \in Nat, x < W, NEW y \in Nat, y < H
    PROVE  y * d + x < W * H
<1>1. PICK k \in Nat : W = d + k
  <2>1. W - d \in Nat /\ W = d + (W - d)
    OBVIOUS
  <2> QED
    BY <2>1
<1>2. PICK m \in Nat : H = y + 1 + m
  <2>1. H - y - 1 \in Nat /\ H = y + 1 + (H - y - 1)
    OBVIOUS
  <2> QED
    BY <2>1
<1>3. W * H = y * W + W + m * W
  BY <1>2
<1>4. y * W = y * d + y * k
  BY <1>1
<1>5. m * W \in Nat /\ y * k \in Nat /\ y * d \in Nat
  OBVIOUS
<1> QED
  BY <1>3, <1>4, <1>5

(* The copy reads inside the region of the shared memory, if hypervisors   *)
(* keep to the largest size: mixed up widths and heights of two switches   *)
(* do no harm, only sizes that nobody has set do.                          *)
THEOREM CopyStaysInRegion ==
    ASSUME SwitchesAllowed
    PROVE  Spec => []CopyInRegion
<1>1. FrameInv /\ JunkNoted => CopyInRegion
  <2> SUFFICES ASSUME FrameInv, JunkNoted, pc = "copy",
                      <<"surface", "width">> \notin junk,
                      <<"surface", "height">> \notin junk,
                      <<"src", "width">> \notin junk,
                      NEW p \in Extents(invalid)
               PROVE  p[2] * src.w + p[1] < MaxW * MaxH
    BY DEF CopyInRegion
  <2>1. surface \in Size /\ src \in Size /\ MaxW \in Nat /\ MaxH \in Nat
    BY FrameAssumption DEF FrameInv, TypeOK
  <2>2. p \in SizePixels(surface)
    BY <2>1, ExtentsInSurface DEF FrameInv
  <2>3. src.w <= MaxW /\ surface.w <= MaxW /\ surface.h <= MaxH
    BY DEF JunkNoted, Allowed
  <2>4. /\ src.w \in Nat /\ surface.w \in Nat /\ surface.h \in Nat
    BY <2>1 DEF Size
  <2>5. surface.w % 65536 <= surface.w /\ surface.h % 65536 <= surface.h
    BY <2>4
  <2>6. p[1] \in Nat /\ p[2] \in Nat
    <3>1. Cols \in Nat /\ Rows \in Nat
      BY FrameAssumption
    <3> QED
      BY <2>2, <3>1 DEF SizePixels, Rect, Pixels
  <2>7. surface.w % 65536 \in Nat /\ surface.h % 65536 \in Nat
    BY <2>4
  <2>8. p[1] < surface.w % 65536 /\ p[2] < surface.h % 65536
    BY <2>2 DEF SizePixels, Rect
  <2>9. p[1] < MaxW /\ p[2] < MaxH
    BY <2>1, <2>3, <2>4, <2>5, <2>6, <2>7, <2>8
  <2> QED
    BY <2>1, <2>3, <2>4, <2>6, <2>9, OffsetInside
<1>2. Spec => []JunkNoted
  <2>1. TypeOK /\ JunkNoted /\ [Next]_vars => JunkNoted'
    BY JunkStep
  <2> QED
    BY <2>1, JunkInit, FrameTypes, PTL DEF Spec
<1> QED
  BY <1>1, <1>2, FrameInvariant, PTL
=============================================================================
