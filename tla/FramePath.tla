----------------------------- MODULE FramePath -----------------------------
(***************************************************************************)
(* The frame path of one listener: display messages become state of the    *)
(* RDPListener on the worker's thread (src/rdp/RDPListener.cpp); the       *)
(* subsystem thread (src/rdp/subsystem.cpp) wakes up, follows a change of  *)
(* size, and copies the dirty region from the hypervisor's shared memory   *)
(* to the surface of the shadow server, which publishes it to its clients. *)
(*                                                                         *)
(* The worker stores width, height and format without a lock while the     *)
(* subsystem thread reads them, each read being a step of its own.         *)
(***************************************************************************)
EXTENDS Integers, Sequences, FiniteSets

CONSTANTS
    MaxW, MaxH,    \* the largest size allowed, 4096 x 2048 in the code
    Cols, Rows,    \* the plane of a RECTANGLE_16, 65536 x 65536 in the code
    Switches,      \* DISPLAY_SWITCH messages <<format, w, h>>, any size
    Boxes,         \* DISPLAY_UPDATE messages <<x, y, w, h>>
    MaxSwitches,   \* bound: switches of the hypervisor
    MaxUpdates,    \* bound: updates of the hypervisor
    JunkSizes,     \* width and height of a listener before a switch, any
    JunkRegions,   \* dirty region before an update
    JunkFormats,   \* format before a switch
    ValidFormats,  \* formats GetRDPFormat knows
    Faults         \* "mmap" if the region cannot be mapped

ASSUME FrameAssumption ==
    /\ MaxW \in Nat \ {0} /\ MaxH \in Nat \ {0}
    /\ Cols \in Nat \ {0} /\ Rows \in Nat \ {0}
    /\ Switches \subseteq Nat \X Nat \X Nat
    /\ Boxes \subseteq Nat \X Nat \X Nat \X Nat
    /\ JunkRegions \subseteq Nat \X Nat \X Nat \X Nat
    /\ JunkSizes \subseteq Nat \X Nat
    /\ MaxSwitches \in Nat /\ MaxUpdates \in Nat

VARIABLES
    \* the hypervisor and the shadow server
    vm,        \* what the shared memory holds: <<format, w, h>>, or NoSurface
    inbox,     \* messages on their way to the listener
    sent,      \* [switches, updates] so far
    clients,   \* is an RDP client connected?
    unseen,    \* pixels whose last change no client has been shown
    \* members of RDPListener
    shm,       \* "null" or "mapped"
    size,      \* [w, h]
    format,
    region,    \* <<x, y, w, h>>
    running,   \* listener_running
    raised,    \* has RunServer raised it
    switched,  \* has a switch been stored (history)
    worker,    \* the fields of a switch still to be stored, and the switch
    \* the subsystem thread and its surface
    pc,
    first,     \* has it not yet passed its first test (history)
    stopEvent,
    quit,      \* a WMQ_QUIT is among the messages of the shadow server
    monitor, surface, src,   \* [w, h] each
    invalid,   \* surface->invalidRegion, a set of pixels
    source,    \* format read for the frame at work
    stale,     \* pixels of the surface older than the shared memory
    torn,      \* pixels changed while they were being copied
    junk       \* sizes that stem from a listener nobody had set (history)

vmVars == <<vm, inbox, sent>>
listenerVars ==
    <<shm, size, format, region, running, raised, switched, worker>>
threadVars ==
    <<pc, first, monitor, surface, src, invalid, source, torn>>
vars == <<vmVars, clients, unseen, listenerVars, threadVars, stopEvent, stale,
          quit, junk>>
-----------------------------------------------------------------------------
Pixels == (0 .. Cols - 1) \X (0 .. Rows - 1)
NoSurface == <<0, 0, 0>>
Idle == [todo |-> {}, switch |-> NoSurface]

(* A RECTANGLE_16 as the set of its pixels; its borders have 16 bits.      *)
Rect(left, top, right, bottom) ==
    {p \in Pixels : /\ left <= p[1] /\ p[1] < right
                    /\ top <= p[2] /\ p[2] < bottom}

BoxPixels(b) ==
    LET u16(n) == n % 65536
        x == u16(b[1])  y == u16(b[2])
    IN  Rect(x, y, u16(x + u16(b[3])), u16(y + u16(b[4])))

SizePixels(s) == Rect(0, 0, s.w % 65536, s.h % 65536)

(* region16_extents: the smallest rectangle around the region.             *)
Extents(r) ==
    {p \in Pixels : /\ \E q \in r : q[1] <= p[1]
                    /\ \E q \in r : q[1] >= p[1]
                    /\ \E q \in r : q[2] <= p[2]
                    /\ \E q \in r : q[2] >= p[2]}

Full == [w |-> MaxW, h |-> MaxH]

(* rdpmux_subsystem_enum_monitors gives the largest size; rdpmux_subsystem *)
(* _init reads the size of the listener, which nobody has set.             *)
Init ==
    /\ vm = NoSurface /\ inbox = <<>> /\ sent = [switches |-> 0, updates |-> 0]
    /\ clients = FALSE /\ unseen = {} /\ stale = {}
    /\ shm = "null" /\ running = FALSE /\ raised = FALSE
    /\ switched = FALSE /\ worker = Idle
    /\ \E s \in JunkSizes : size = [w |-> s[1], h |-> s[2]]
    /\ format \in JunkFormats
    /\ region \in JunkRegions
    /\ pc = "test" /\ first = TRUE /\ stopEvent = FALSE
    /\ monitor = Full /\ surface = Full /\ src = size
    /\ invalid = {} /\ source = 0 /\ torn = {}
    /\ quit = FALSE /\ junk = {"size", "src"} \X {"width", "height"}
-----------------------------------------------------------------------------
(* The hypervisor: the region is written first, the message follows.       *)

Changed(pixels) ==
    /\ stale' = stale \cup pixels
    /\ unseen' = unseen \cup pixels
    /\ torn' = IF pc = "copy" THEN torn \cup pixels ELSE torn

DrawUpdate ==
    /\ sent.updates < MaxUpdates /\ vm # NoSurface
    /\ \E b \in Boxes :
          /\ BoxPixels(b) \subseteq SizePixels([w |-> vm[2], h |-> vm[3]])
          /\ inbox' = Append(inbox, <<"update", b>>)
          /\ Changed(BoxPixels(b))
    /\ sent' = [sent EXCEPT !.updates = @ + 1]
    /\ UNCHANGED <<vm, clients, listenerVars, pc, first, monitor, surface, src,
                   invalid, source, stopEvent, quit, junk>>

DrawSwitch ==
    /\ sent.switches < MaxSwitches
    /\ \E s \in Switches :
          /\ vm' = s
          /\ inbox' = Append(inbox, <<"switch", s>>)
          /\ Changed(SizePixels([w |-> s[2], h |-> s[3]]))
    /\ sent' = [sent EXCEPT !.switches = @ + 1]
    /\ UNCHANGED <<clients, listenerVars, pc, first, monitor, surface, src,
                   invalid, source, stopEvent, quit, junk>>

SendShutdown ==
    /\ vm # NoSurface
    /\ inbox' = Append(inbox, <<"shutdown">>)
    /\ vm' = NoSurface
    /\ sent' = [switches |-> MaxSwitches, updates |-> MaxUpdates]
    /\ UNCHANGED <<clients, unseen, listenerVars, threadVars, stopEvent, stale,
                   quit, junk>>

ClientConnects ==
    /\ ~clients /\ clients' = TRUE
    /\ UNCHANGED <<vmVars, unseen, listenerVars, threadVars, stopEvent, stale,
                   quit, junk>>

ClientLeaves ==
    /\ clients /\ clients' = FALSE
    /\ UNCHANGED <<vmVars, unseen, listenerVars, threadVars, stopEvent, stale,
                   quit, junk>>
-----------------------------------------------------------------------------
(* processIncomingMessage, on the worker's thread.                         *)

Message(kind) ==
    /\ worker = Idle /\ inbox # <<>> /\ Head(inbox)[1] = kind
    /\ inbox' = Tail(inbox)
    /\ UNCHANGED <<vm, sent, clients, unseen, threadVars, stopEvent, stale,
                   quit, junk>>

(* Mutant: the fields of the message are taken in another order.           *)
processDisplayUpdate_reordered ==
    /\ Message("update")
    /\ region' = LET b == Head(inbox)[2] IN <<b[3], b[4], b[1], b[2]>>
    /\ UNCHANGED <<shm, size, format, running, raised, switched, worker>>

(* The four stores happen under dimMutex.                                  *)
processDisplayUpdate ==
    /\ Message("update")
    /\ region' = Head(inbox)[2]
    /\ UNCHANGED <<shm, size, format, running, raised, switched, worker>>

(* Mutant: a failed mmap does not end the handler.                         *)
processDisplaySwitch_onwards ==
    /\ Message("switch")
    /\ shm' = "mapped" \/ (shm = "null" /\ "mmap" \in Faults /\ shm' = shm)
    /\ worker' = [todo |-> {"width", "height", "format"},
                  switch |-> Head(inbox)[2]]
    /\ UNCHANGED <<size, format, region, running, raised, switched>>

(* The result of shm_open is not looked at: without the region mmap fails. *)
processDisplaySwitch ==
    /\ Message("switch")
    /\ \/ /\ shm' = "mapped"
          /\ worker' = [todo |-> {"width", "height", "format"},
                        switch |-> Head(inbox)[2]]
       \/ /\ shm = "null" /\ "mmap" \in Faults
          /\ UNCHANGED <<shm, worker>>
    /\ UNCHANGED <<size, format, region, running, raised, switched>>

(* The stores at the end of it; nothing orders them for other threads.     *)
StoreField ==
    /\ \E f \in worker.todo :
          /\ size' = CASE f = "width" -> [size EXCEPT !.w = worker.switch[2]]
                       [] f = "height" -> [size EXCEPT !.h = worker.switch[3]]
                       [] OTHER -> size
          /\ format' = IF f = "format" THEN worker.switch[1] ELSE format
          /\ junk' = junk \ {<<"size", f>>}
          /\ worker' = IF worker.todo = {f} THEN Idle
                       ELSE [worker EXCEPT !.todo = @ \ {f}]
    /\ switched' = TRUE
    /\ UNCHANGED <<vmVars, clients, unseen, shm, region, running, raised,
                   threadVars, stopEvent, stale, quit>>

processShutdown ==
    /\ Message("shutdown")
    /\ running' = FALSE
    /\ UNCHANGED <<shm, size, format, region, raised, switched, worker>>
-----------------------------------------------------------------------------
(* The thread of the listener: RunServer has started the subsystem thread  *)
(* before it raises the flag.  The flag falls through the bus or when the  *)
(* listener is destroyed, and shadow_server_stop sets the event.           *)

RunServer ==
    /\ ~raised
    /\ running' = TRUE /\ raised' = TRUE
    /\ UNCHANGED <<vmVars, clients, unseen, shm, size, format, region,
                   switched, worker, threadVars, stopEvent, stale,
                   quit, junk>>

Shutdown ==
    /\ running /\ running' = FALSE
    /\ UNCHANGED <<vmVars, clients, unseen, shm, size, format, region, raised,
                   switched, worker, threadVars, stopEvent, stale,
                   quit, junk>>

StopServer ==
    /\ raised /\ ~running /\ ~stopEvent /\ stopEvent' = TRUE
    /\ UNCHANGED <<vmVars, clients, unseen, listenerVars, threadVars, stale,
                   quit, junk>>

(* Any part of the shadow server may ask the thread to leave by message.   *)
PostQuit ==
    /\ ~quit /\ quit' = TRUE
    /\ UNCHANGED <<vmVars, clients, unseen, listenerVars, threadVars, stopEvent,
                   stale, junk>>
-----------------------------------------------------------------------------
(* rdpmux_subsystem_thread.                                                *)

ResizeOnly == UNCHANGED <<vmVars, clients, listenerVars, stopEvent, quit>>
ThreadOnly == ResizeOnly /\ UNCHANGED junk

Goto(here, there) == pc = here /\ pc' = there

(* Mutant: the flag is tested once, before the loop.                       *)
TestRunning_once ==
    /\ IF running \/ ~first THEN Goto("test", "wait") /\ first' = FALSE
       ELSE Goto("test", "ended") /\ UNCHANGED first
    /\ ThreadOnly
    /\ UNCHANGED <<unseen, monitor, surface, src, invalid, source, stale, torn>>

TestRunning ==
    /\ IF running THEN Goto("test", "wait") /\ first' = FALSE
       ELSE Goto("test", "ended") /\ UNCHANGED first
    /\ ThreadOnly
    /\ UNCHANGED <<unseen, monitor, surface, src, invalid, source, stale, torn>>

(* The wait is over: the thread leaves on the stop event or on WMQ_QUIT.   *)
WaitEnds ==
    /\ IF stopEvent \/ quit THEN Goto("wait", "ended") ELSE Goto("wait", "timer")
    /\ ThreadOnly
    /\ UNCHANGED <<unseen, first, monitor, surface, src, invalid, source, stale,
                   torn>>

(* shadow_subsystem_frame_update: the clients are shown what the surface   *)
(* holds.                                                                  *)
frame_update == unseen' = unseen \cap stale

(* process_message, on a message that is not WMQ_QUIT or came before it:   *)
(* only a refresh request does anything.                                   *)
process_message ==
    /\ Goto("wait", "timer") /\ ~stopEvent /\ clients
    /\ frame_update
    /\ ThreadOnly
    /\ UNCHANGED <<first, monitor, surface, src, invalid, source, stale, torn>>

(* Neither the time-out nor the frame time has come.                       *)
NotDue ==
    /\ Goto("timer", "test")
    /\ ThreadOnly
    /\ UNCHANGED <<unseen, first, monitor, surface, src, invalid, source, stale,
                   torn>>

Due ==
    /\ Goto("timer", "width")
    /\ ThreadOnly
    /\ UNCHANGED <<unseen, first, monitor, surface, src, invalid, source, stale,
                   torn>>

(* rdpmux_subsystem_check_resize, one read of the listener at a time.      *)
CompareWidth ==
    /\ IF src.w # size.w THEN Goto("width", "bottom")
       ELSE Goto("width", "height")
    /\ ThreadOnly
    /\ UNCHANGED <<unseen, first, monitor, surface, src, invalid, source, stale,
                   torn>>

CompareHeight ==
    /\ IF src.h # size.h THEN Goto("height", "bottom")
       ELSE Goto("height", "frame")
    /\ ThreadOnly
    /\ UNCHANGED <<unseen, first, monitor, surface, src, invalid, source, stale,
                   torn>>

(* Which sizes a store takes over, for junk.                               *)
Inherit(to, from, f) ==
    junk' = IF <<from, f>> \in junk THEN junk \cup {<<to, f>>}
            ELSE junk \ {<<to, f>>}

MonitorBottom ==
    /\ Goto("bottom", "right")
    /\ monitor' = [monitor EXCEPT !.h = size.h]
    /\ Inherit("monitor", "size", "height")
    /\ ResizeOnly
    /\ UNCHANGED <<unseen, first, surface, src, invalid, source, stale, torn>>

MonitorRight ==
    /\ Goto("right", "resize")
    /\ monitor' = [monitor EXCEPT !.w = size.w]
    /\ Inherit("monitor", "size", "width")
    /\ ResizeOnly
    /\ UNCHANGED <<unseen, first, surface, src, invalid, source, stale, torn>>

(* shadow_screen_resize gives the surface the size of the monitor; nothing *)
(* of what it showed is right any more.                                    *)
shadow_screen_resize ==
    /\ Goto("resize", "src_height")
    /\ surface' = monitor
    /\ stale' = IF monitor = surface THEN stale ELSE Pixels
    /\ unseen' = IF monitor = surface THEN unseen ELSE Pixels
    /\ junk' = {t \in junk : t[1] # "surface"} \cup
                   {<<"surface", f>> : f \in {g \in {"width", "height"} :
                                               <<"monitor", g>> \in junk}}
    /\ ResizeOnly
    /\ UNCHANGED <<first, monitor, src, invalid, source, torn>>

SrcHeight ==
    /\ Goto("src_height", "src_width")
    /\ src' = [src EXCEPT !.h = size.h]
    /\ Inherit("src", "size", "height")
    /\ ResizeOnly
    /\ UNCHANGED <<unseen, first, monitor, surface, invalid, source, stale, torn>>

(* Mutants: the new width is not taken over, or it is taken over in bytes. *)
SrcWidth_kept ==
    /\ Goto("src_width", "frame")
    /\ UNCHANGED src
    /\ ThreadOnly
    /\ UNCHANGED <<unseen, first, monitor, surface, invalid, source, stale, torn>>

SrcWidth_bytes ==
    /\ Goto("src_width", "frame")
    /\ src' = [src EXCEPT !.w = 4 * size.w]
    /\ Inherit("src", "size", "width")
    /\ ResizeOnly
    /\ UNCHANGED <<unseen, first, monitor, surface, invalid, source, stale, torn>>

SrcWidth ==
    /\ Goto("src_width", "frame")
    /\ src' = [src EXCEPT !.w = size.w]
    /\ Inherit("src", "size", "width")
    /\ ResizeOnly
    /\ UNCHANGED <<unseen, first, monitor, surface, invalid, source, stale, torn>>

(* rdpmux_subsystem_update_frame: the format, if there are clients.        *)
GetRDPFormat ==
    /\ IF clients /\ format \in ValidFormats THEN Goto("frame", "region")
       ELSE Goto("frame", "test")
    /\ source' = format
    /\ ThreadOnly
    /\ UNCHANGED <<unseen, first, monitor, surface, src, invalid, stale, torn>>

(* Mutant: the region is not cut to the surface.                           *)
Damage_uncut == invalid \cup BoxPixels(region)

(* The dirty region joins what is left of earlier ones, within the surface. *)
Damage == (invalid \cup BoxPixels(region)) \cap SizePixels(surface)

GetDirtyRegion ==
    /\ invalid' = Damage
    /\ IF invalid' = {} THEN Goto("region", "test") ELSE Goto("region", "copy")
    /\ torn' = {}
    /\ ThreadOnly
    /\ UNCHANGED <<unseen, first, monitor, surface, src, source, stale>>

(* freerdp_image_copy takes its rows at the distance of src_width pixels   *)
(* of the format: another geometry than the hypervisor's yields rubbish.   *)
(* Of the pixels that changed meanwhile the copy has the old or the new.   *)
GoodCopy == vm # NoSurface /\ source = vm[1] /\ src.w = vm[2]

image_copy ==
    /\ shm = "mapped" /\ Goto("copy", "publish")
    /\ LET ext == Extents(invalid) IN
       IF GoodCopy
       THEN \E missed \in SUBSET (torn \cap ext) :
               /\ stale' = (stale \ ext) \cup missed
               /\ unseen' = unseen \cup missed
       ELSE stale' = stale \cup ext /\ unseen' = unseen \cup ext
    /\ ThreadOnly
    /\ UNCHANGED <<first, monitor, surface, src, invalid, source, torn>>

(* Without a source there is no copy, and no frame.                        *)
image_copy_fails ==
    /\ shm = "null" /\ Goto("copy", "test")
    /\ ThreadOnly
    /\ UNCHANGED <<unseen, first, monitor, surface, src, invalid, source, stale,
                   torn>>

(* The shadow server may keep the region, or clear it once it is shown.    *)
Publish ==
    /\ Goto("publish", "test")
    /\ frame_update
    /\ invalid' \in {invalid, {}}
    /\ torn' = {}
    /\ ThreadOnly
    /\ UNCHANGED <<first, monitor, surface, src, source, stale>>
-----------------------------------------------------------------------------
Hypervisor == DrawUpdate \/ DrawSwitch \/ SendShutdown
Client == ClientConnects \/ ClientLeaves

Worker ==
    processDisplayUpdate \/ processDisplaySwitch \/ StoreField
    \/ processShutdown

Listener == RunServer \/ Shutdown \/ StopServer \/ PostQuit

Resize ==
    CompareWidth \/ CompareHeight \/ MonitorBottom \/ MonitorRight
    \/ shadow_screen_resize \/ SrcHeight \/ SrcWidth

Frame == GetRDPFormat \/ GetDirtyRegion \/ image_copy \/ image_copy_fails
    \/ Publish

Subsystem ==
    TestRunning \/ WaitEnds \/ process_message \/ NotDue \/ Due
    \/ Resize \/ Frame

Next == Hypervisor \/ Client \/ Worker \/ Listener \/ Subsystem

Spec == Init /\ [][Next]_vars

(* The threads are scheduled, and the time of a frame comes again and      *)
(* again: the wait times out after 5 ms unless messages keep it busy, and  *)
(* then the frame time passes.                                             *)
FairSpec == Spec /\ WF_vars(Worker) /\ WF_vars(Subsystem) /\ SF_vars(Due)
-----------------------------------------------------------------------------
(* Properties.                                                             *)

Size == [w : Nat, h : Nat]
Messages == ({"update"} \X Boxes) \cup ({"switch"} \X Switches)
            \cup {<<"shutdown">>}

(* The variables have their types; the region of the listener is always    *)
(* that of one message.                                                    *)
TypeOK ==
    /\ vm \in Switches \cup {NoSurface}
    /\ inbox \in Seq(Messages)
    /\ sent \in [switches : 0 .. MaxSwitches, updates : 0 .. MaxUpdates]
    /\ clients \in BOOLEAN /\ running \in BOOLEAN /\ raised \in BOOLEAN
    /\ switched \in BOOLEAN
    /\ first \in BOOLEAN /\ stopEvent \in BOOLEAN /\ quit \in BOOLEAN
    /\ shm \in {"null", "mapped"}
    /\ size \in Size /\ monitor \in Size /\ surface \in Size /\ src \in Size
    /\ region \in Boxes \cup JunkRegions
    /\ worker \in [todo : SUBSET {"width", "height", "format"},
                  switch : Switches \cup {NoSurface}]
    /\ pc \in {"test", "wait", "timer", "width", "height", "bottom", "right",
               "resize", "src_height", "src_width", "frame", "region", "copy",
               "publish", "ended"}
    /\ invalid \subseteq Pixels /\ stale \subseteq Pixels
    /\ unseen \subseteq Pixels /\ torn \subseteq Pixels
    /\ junk \subseteq {"size", "monitor", "surface", "src"}
                          \X {"width", "height"}

(* freerdp_image_copy writes inside the surface, although the region may   *)
(* have been collected for a larger surface and the size of the listener   *)
(* may have changed twice since.                                           *)
CopyInSurface == pc = "copy" => Extents(invalid) \subseteq SizePixels(surface)

(* Once a DISPLAY_SWITCH has been stored, frames are copied from mapped    *)
(* memory: a switch whose mmap failed leaves no trace that lets the next   *)
(* frame go ahead.                                                         *)
CopyFromMapped == (pc = "copy" /\ shm = "null") => ~switched

(* The region that processDisplaySwitch maps has room for the largest size *)
(* allowed.  freerdp_image_copy reads inside it, although width and height *)
(* are stored and read one by one and may belong to two switches, except   *)
(* while the surface or the distance of the rows still stems from a size   *)
(* that nobody had set.                                                    *)
CopyInRegion ==
    (/\ pc = "copy" /\ shm = "mapped"
     /\ junk \cap {<<"surface", "width">>, <<"surface", "height">>,
                   <<"src", "width">>} = {})
        => \A p \in Extents(invalid) : p[2] * src.w + p[1] < MaxW * MaxH

(* subsystem.cpp:139, of the size of the monitor: "default to largest size *)
(* allowed"; nothing checks the size of a switch.                          *)
SwitchesAllowed == \A s \in Switches : s[2] <= MaxW /\ s[3] <= MaxH

(* A listener that stops takes its subsystem thread along.                 *)
StopEndsThread == (~running /\ ~first) ~> (pc = "ended")

(* Nothing is on its way, the sizes agree and a client looks on.           *)
Settled ==
    /\ inbox = <<>> /\ worker = Idle /\ running /\ ~stopEvent /\ ~first
    /\ ~quit
    /\ clients /\ vm # NoSurface /\ vm[1] \in ValidFormats
    /\ format = vm[1] /\ size = [w |-> vm[2], h |-> vm[3]]

(* The region of the last DISPLAY_UPDATE is shown to the clients, however  *)
(* its announcement, the copies and changes of size interleave: a client   *)
(* that stays sees all of it that is on the surface.                       *)
LastRegionShown ==
    <>[]Settled =>
        <>[](unseen \cap BoxPixels(region) \cap SizePixels(surface) = {})

(* After a DISPLAY_SWITCH the surface takes the size that the hypervisor   *)
(* has switched to.                                                        *)
SurfaceFollowsSwitch ==
    <>[](Settled => surface = size)
=============================================================================
