----------------------------- MODULE MuxDisplay -----------------------------
(***************************************************************************)
(* librdpmux inside the hypervisor process (lib/src/rdpmux.c, 0mq.c and    *)
(* the outgoing half of msgpack.c).                                        *)
(*                                                                         *)
(* Two threads share one MuxDisplay struct.  The display thread of the     *)
(* hypervisor calls mux_display_update, mux_display_switch and             *)
(* mux_display_refresh one at a time; mux_mainloop runs on a thread of its *)
(* own, moves the single outgoing update onto the ZeroMQ socket and polls. *)
(* out_update and out_ready are guarded by out_lock; dirty_update belongs  *)
(* to the display thread; the shared memory region has no lock at all.     *)
(*                                                                         *)
(* The receive half of the poll step only calls the input callbacks and    *)
(* leaves every variable of this module alone.                             *)
(***************************************************************************)
EXTENDS MuxGeometry, Sequences

CONSTANTS
    Surfaces,     \* framebuffer surfaces the guest may switch to
    Regions,      \* regions <<x, y, w, h>> the guest may damage
    ShmPixels,    \* capacity of the shared region, 4096 * 2048 in the code
    ShmFaults,    \* which of "shm_open", "ftruncate", "mmap" may fail
    HWM,          \* ZeroMQ high-water mark of the dealer socket
    MaxChanges,   \* bound on damage and switches by the guest
    MaxRestarts   \* bound on restarts of the hypervisor process

ASSUME MuxAssumption ==
    /\ Surfaces \subseteq [w : Nat \ {0}, h : Nat \ {0}, format : STRING]
    /\ Regions \subseteq Nat \X Nat \X Nat \X Nat
    /\ ShmPixels \in Nat
    /\ ShmFaults \subseteq {"shm_open", "ftruncate", "mmap"}
    /\ HWM \in Nat \ {0}
    /\ MaxChanges \in Nat
    /\ MaxRestarts \in Nat

VARIABLES
    surface,        \* display->surface, as width, height and format
    shmem_fd,       \* "none" until shm_open and ftruncate succeeded
    shm_buffer,     \* "NULL" until mmap succeeded
    dirty_update,   \* display->dirty_update
    out_update,     \* display->out_update
    out_ready,      \* display->out_ready
    out_lock,       \* holder of display->out_lock when a step ends
    hpc,            \* display thread: "idle" or inside mux_display_switch
    mpc,            \* position of mux_mainloop
    out,            \* local copy of the update mux_mainloop is sending
    interrupted,    \* zsys_interrupted, set by mux_handler
    proc,           \* "running", "crashed" on an invalid memory access, or
                    \* "killed" by a signal
    wire,           \* messages sent and not yet read by the server
    shm_name,       \* the named region /<vm_id>.rdpmux exists in the system
    changes, restarts,
    (* History, for the properties only.                                   *)
    stale,          \* pixels of the surface that differ from the region
    unsent,         \* pixels whose latest change no sent message covers
    lastSwitch      \* the surface of the last DISPLAY_SWITCH sent

shmVars  == <<shmem_fd, shm_buffer, shm_name>>
outVars  == <<out_update, out_ready, out_lock>>
mainVars == <<mpc, out, wire, lastSwitch>>
vars == <<surface, shmVars, dirty_update, outVars, hpc, mainVars,
          interrupted, proc, changes, restarts, stale, unsent>>

NoSurface == [w |-> 0, h |-> 0, format |-> "none"]

Invalid == [type |-> "MSGTYPE_INVALID"]
DisplayUpdate(b) == [type |-> "DISPLAY_UPDATE", box |-> b]
DisplaySwitch(s) == [type |-> "DISPLAY_SWITCH", surf |-> s]

(* cmp_write_uint takes a uint64_t: a negative int wraps to a value beyond *)
(* 32 bits.  -1 stands for all of those.                                   *)
EncodeUint(n) == IF n < 0 THEN -1 ELSE n

(* mux_write_outgoing_msg: corners become origin and size on the wire.     *)
Encode(u) ==
    IF u.type = "DISPLAY_UPDATE"
    THEN [type |-> "DISPLAY_UPDATE", x |-> u.box.x1, y |-> u.box.y1,
          w |-> EncodeUint(u.box.x2 - u.box.x1),
          h |-> EncodeUint(u.box.y2 - u.box.y1)]
    ELSE [type |-> "DISPLAY_SWITCH", format |-> u.surf.format,
          w |-> u.surf.w, h |-> u.surf.h]

ShutdownMsg == [type |-> "SHUTDOWN"]

(* mux_init_display_struct and mux_connect.                                *)
Init ==
    /\ surface = NoSurface
    /\ shmem_fd = "none" /\ shm_buffer = "NULL"
    /\ dirty_update = Invalid
    /\ out_update = Invalid /\ out_ready = FALSE /\ out_lock = "free"
    /\ hpc = "idle" /\ mpc = "lock" /\ out = Invalid
    /\ interrupted = FALSE /\ proc = "running"
    /\ wire = <<>>
    /\ stale = {} /\ unsent = {} /\ lastSwitch = NoSurface
    /\ shm_name = FALSE /\ changes = 0 /\ restarts = 0

Running == proc = "running"

-----------------------------------------------------------------------------
(* Display thread.                                                         *)

(* The guest changed the pixels of a region inside the surface and the     *)
(* hypervisor reports it.                                                  *)
mux_display_update(r) ==
    LET b == RegionBox(r[1], r[2], r[3], r[4])
        damaged == {p \in Pixels(surface) : InBox(p, b)}
    IN  /\ Running /\ hpc = "idle" /\ changes < MaxChanges
        /\ b.x2 <= surface.w /\ b.y2 <= surface.h
        /\ dirty_update' =
               IF dirty_update.type = "MSGTYPE_INVALID"
               THEN DisplayUpdate(b)
               ELSE DisplayUpdate(mux_expand_rect(dirty_update.box, b))
        /\ stale' = stale \cup damaged
        /\ unsent' = unsent \cup damaged
        /\ changes' = changes + 1
        /\ UNCHANGED <<surface, shmVars, outVars, hpc, mainVars, interrupted,
                       proc, restarts>>

(* An early return of the set-up path: the surface pointer has already     *)
(* been replaced, and nothing is copied or queued.                         *)
SwitchFails(s, fault) ==
    /\ shmem_fd = "none"
    /\ \/ /\ fault = "shm_open"
          /\ shm_name \/ fault \in ShmFaults
          /\ UNCHANGED shmVars
       \/ /\ fault = "ftruncate" /\ fault \in ShmFaults /\ ~shm_name
          /\ shm_name' = TRUE /\ UNCHANGED <<shmem_fd, shm_buffer>>
       \/ /\ fault = "mmap" /\ fault \in ShmFaults /\ ~shm_name
          /\ shm_name' = TRUE /\ shmem_fd' = "open" /\ UNCHANGED shm_buffer
    /\ stale' = Pixels(s) /\ unsent' = Pixels(s)
    /\ UNCHANGED <<dirty_update, outVars, hpc, mainVars, interrupted,
                   proc, restarts>>

(* The region is there, new or from an earlier switch; the whole surface   *)
(* is copied into it before the lock is asked for.                         *)
SwitchCopies(s) ==
    /\ \/ shmem_fd = "none" /\ ~shm_name
       \/ shmem_fd = "open" /\ shm_buffer = "mapped"
    /\ s.w * s.h <= ShmPixels
    /\ shmem_fd' = "open" /\ shm_buffer' = "mapped" /\ shm_name' = TRUE
    /\ hpc' = "queue_switch"
    /\ stale' = {} /\ unsent' = Pixels(s)
    /\ UNCHANGED <<dirty_update, outVars, mainVars, interrupted,
                   proc, restarts>>

(* memcpy to a NULL region, or past its end: the process dies.             *)
SwitchOverruns(s) ==
    /\ \/ shmem_fd = "open" /\ shm_buffer = "NULL"
       \/ (shmem_fd = "open" \/ ~shm_name) /\ s.w * s.h > ShmPixels
    /\ shm_name' = TRUE
    /\ proc' = "crashed"
    /\ stale' = {} /\ unsent' = {}
    /\ UNCHANGED <<shmem_fd, shm_buffer, dirty_update, outVars, hpc, mainVars,
                   interrupted, restarts>>

mux_display_switch(s) ==
    /\ Running /\ hpc = "idle" /\ changes < MaxChanges
    /\ surface' = s
    /\ changes' = changes + 1
    /\ \/ \E fault \in {"shm_open", "ftruncate", "mmap"} : SwitchFails(s, fault)
       \/ SwitchCopies(s)
       \/ SwitchOverruns(s)

(* The critical section at the end of mux_display_switch.                  *)
QueueSwitch ==
    /\ Running /\ hpc = "queue_switch" /\ out_lock = "free"
    /\ out_update' = DisplaySwitch(surface)
    /\ out_ready' = TRUE
    /\ hpc' = "idle"
    /\ UNCHANGED <<surface, shmVars, dirty_update, out_lock, mainVars,
                   interrupted, proc, changes, restarts, stale,
                   unsent>>

(* mux_copy_pixels of lines y1 .. y2 - 1: to a NULL region, or with a      *)
(* negative height that memcpy takes for a huge size.                      *)
CopyOverruns(b) == b.y2 < b.y1 \/ (shm_buffer = "NULL" /\ b.y2 # b.y1)

(* Mutant: dirty_update is emptied although trylock failed.                *)
RefreshDeferredDrops(b) ==
    /\ out_lock # "free"
    /\ dirty_update' = Invalid
    /\ UNCHANGED <<out_update, out_ready, stale, proc>>

(* trylock failed: the aligned box stays in dirty_update for the next tick. *)
RefreshDeferred(b) ==
    /\ out_lock # "free"
    /\ dirty_update' = DisplayUpdate(b)
    /\ UNCHANGED <<out_update, out_ready, stale, proc>>

RefreshOverruns(b) ==
    /\ out_lock = "free" /\ CopyOverruns(b)
    /\ dirty_update' = DisplayUpdate(b)
    /\ proc' = "crashed"
    /\ UNCHANGED <<out_update, out_ready, stale>>

(* Mutant: dirty_update is emptied although the slot was taken.            *)
RefreshCopiesDrops(b) ==
    /\ out_lock = "free" /\ ~CopyOverruns(b)
    /\ out_ready \/ out_update.type # "MSGTYPE_INVALID"
    /\ stale' = {p \in stale : ~InStrip(p, b)}
    /\ dirty_update' = Invalid
    /\ UNCHANGED <<out_update, out_ready, proc>>

(* The pixels are copied, but another event is still waiting to be sent.   *)
RefreshCopies(b) ==
    /\ out_lock = "free" /\ ~CopyOverruns(b)
    /\ out_ready \/ out_update.type # "MSGTYPE_INVALID"
    /\ stale' = {p \in stale : ~InStrip(p, b)}
    /\ dirty_update' = DisplayUpdate(b)
    /\ UNCHANGED <<out_update, out_ready, proc>>

(* Mutant: no test for another event in the slot.                          *)
RefreshOverwrites(b) ==
    /\ out_lock = "free" /\ ~CopyOverruns(b)
    /\ stale' = {p \in stale : ~InStrip(p, b)}
    /\ out_update' = DisplayUpdate(b)
    /\ out_ready' = TRUE
    /\ dirty_update' = Invalid
    /\ UNCHANGED proc

RefreshQueues(b) ==
    /\ out_lock = "free" /\ ~CopyOverruns(b)
    /\ ~out_ready /\ out_update.type = "MSGTYPE_INVALID"
    /\ stale' = {p \in stale : ~InStrip(p, b)}
    /\ out_update' = DisplayUpdate(b)
    /\ out_ready' = TRUE
    /\ dirty_update' = Invalid
    /\ UNCHANGED proc

RefreshFrame ==
    /\ Running /\ hpc = "idle"
    /\ dirty_update.type = "DISPLAY_UPDATE"
    /\ UNCHANGED <<surface, shmVars, out_lock, hpc, mainVars, interrupted,
                   changes, restarts, unsent>>

mux_display_refresh ==
    LET b == RefreshBox(dirty_update.box, surface)
    IN  /\ RefreshFrame
        /\ \/ RefreshDeferred(b)
           \/ RefreshOverruns(b)
           \/ RefreshCopies(b)
           \/ RefreshQueues(b)
-----------------------------------------------------------------------------
(* mux_mainloop.                                                           *)

MainLock ==
    /\ Running /\ mpc = "lock" /\ out_lock = "free"
    /\ out_lock' = "main"
    /\ mpc' = "take"
    /\ UNCHANGED <<surface, shmVars, dirty_update, out_update, out_ready, hpc,
                   out, wire, lastSwitch, interrupted, proc, changes,
                   restarts, stale, unsent>>

(* The critical section, and the two tests that follow it.                 *)
MainTake ==
    /\ Running /\ mpc = "take"
    /\ out' = IF out_ready THEN out_update ELSE Invalid
    /\ out_update' = IF out_ready THEN Invalid ELSE out_update
    /\ out_ready' = FALSE
    /\ out_lock' = "free"
    /\ mpc' = IF out_ready /\ out_update.type # "MSGTYPE_INVALID"
              THEN "send" ELSE "poll"
    /\ UNCHANGED <<surface, shmVars, dirty_update, hpc, wire, lastSwitch,
                   interrupted, proc, changes, restarts, stale,
                   unsent>>

(* mux_0mq_send_msg blocks while the socket is at its high-water mark.     *)
SendUpdate ==
    /\ Len(wire) < HWM
    /\ wire' = Append(wire, Encode(out))
    /\ IF out.type = "DISPLAY_SWITCH"
       THEN /\ lastSwitch' = out.surf
            /\ unsent' = {p \in unsent : out.surf # surface \/ p \in stale}
       ELSE /\ unsent' = {p \in unsent : ~InBox(p, out.box) \/ p \in stale}
            /\ UNCHANGED lastSwitch

MainSend ==
    /\ Running /\ mpc = "send"
    /\ SendUpdate
    /\ out' = Invalid
    /\ mpc' = "poll"
    /\ UNCHANGED <<surface, shmVars, dirty_update, outVars, hpc, interrupted,
                   proc, changes, restarts, stale>>

(* Mutant: the poll has no timeout and returns only when it is interrupted. *)
PollWithoutTimeout ==
    /\ Running /\ mpc = "poll" /\ interrupted
    /\ mpc' = "shutdown"
    /\ UNCHANGED <<surface, shmVars, dirty_update, outVars, hpc, out, wire,
                   lastSwitch, interrupted, proc, changes, restarts,
                   stale, unsent>>

(* Mutant: a terminated poller is taken for a timeout.                     *)
PollIgnoresInterrupt ==
    /\ Running /\ mpc = "poll"
    /\ mpc' = "lock"
    /\ UNCHANGED <<surface, shmVars, dirty_update, outVars, hpc, out, wire,
                   lastSwitch, interrupted, proc, changes, restarts,
                   stale, unsent>>

(* zpoller_wait: a timeout or a message starts the next round; once the    *)
(* interrupt flag is up the poller reports that it is terminated.          *)
MainPoll ==
    /\ Running /\ mpc = "poll"
    /\ mpc' = IF interrupted THEN "shutdown" ELSE "lock"
    /\ UNCHANGED <<surface, shmVars, dirty_update, outVars, hpc, out, wire,
                   lastSwitch, interrupted, proc, changes, restarts,
                   stale, unsent>>

(* Mutant: the loop goes on after the shutdown message.                    *)
ShutdownThenLoop ==
    /\ Running /\ mpc = "shutdown"
    /\ Len(wire) < HWM /\ wire' = Append(wire, ShutdownMsg)
    /\ mpc' = "lock"
    /\ UNCHANGED <<surface, shmVars, dirty_update, outVars, hpc, out,
                   lastSwitch, interrupted, proc, changes, restarts,
                   stale, unsent>>

(* The last message is sent like any other: the signal that ends the loop  *)
(* was handled before this zmsg_send begins, so at the high-water mark it  *)
(* waits until the server reads.                                           *)
mux_send_shutdown_msg ==
    /\ Running /\ mpc = "shutdown"
    /\ Len(wire) < HWM /\ wire' = Append(wire, ShutdownMsg)
    /\ mpc' = "destroy"
    /\ UNCHANGED <<surface, shmVars, dirty_update, outVars, hpc, out,
                   lastSwitch, interrupted, proc, changes, restarts,
                   stale, unsent>>

(* zsock_destroy: the socket has no linger period, so what has not left    *)
(* the process yet may be dropped.                                         *)
MainDestroy ==
    /\ Running /\ mpc = "destroy"
    /\ mpc' = "done"
    /\ \E k \in 0 .. Len(wire) : wire' = SubSeq(wire, 1, k)
    /\ UNCHANGED <<surface, shmVars, dirty_update, outVars, hpc, out,
                   lastSwitch, interrupted, proc, changes, restarts,
                   stale, unsent>>

mux_mainloop ==
    \/ MainLock \/ MainTake \/ MainSend \/ MainPoll
    \/ mux_send_shutdown_msg \/ MainDestroy
-----------------------------------------------------------------------------
(* Environment.                                                            *)

(* A signal wakes the zmsg_send that is blocked when it arrives, if it is  *)
(* handled on that thread; nobody looks at the result: the message is gone. *)
SendInterrupted ==
    /\ mpc = "send" /\ Len(wire) = HWM
    /\ mpc' = "poll" /\ out' = Invalid
    /\ UNCHANGED <<wire, lastSwitch>>

(* mux_handler, on a termination signal, on the main loop's thread or on   *)
(* another one.  It gives the signal back to the handler that was          *)
(* installed before: the hypervisor's own, which lets the process go on    *)
(* for now, or the default one, which ends it.                             *)
mux_handler ==
    /\ Running /\ ~interrupted
    /\ interrupted' = TRUE
    /\ proc' \in {"running", "killed"}
    /\ SendInterrupted \/ UNCHANGED mainVars
    /\ UNCHANGED <<surface, shmVars, dirty_update, outVars, hpc,
                   changes, restarts, stale, unsent>>

(* The server reads the next message.                                      *)
PeerReceive ==
    /\ wire # <<>>
    /\ wire' = Tail(wire)
    /\ UNCHANGED <<surface, shmVars, dirty_update, outVars, hpc, mpc, out,
                   lastSwitch, interrupted, proc, changes, restarts,
                   stale, unsent>>

(* The hypervisor process ends, in whatever state it is, and is started    *)
(* again for the same VM.  The named region outlives it: nothing in the    *)
(* code unlinks it.                                                        *)
Restart ==
    /\ restarts < MaxRestarts
    /\ restarts' = restarts + 1
    /\ surface' = NoSurface
    /\ shmem_fd' = "none" /\ shm_buffer' = "NULL"
    /\ dirty_update' = Invalid
    /\ out_update' = Invalid /\ out_ready' = FALSE /\ out_lock' = "free"
    /\ hpc' = "idle" /\ mpc' = "lock" /\ out' = Invalid
    /\ interrupted' = FALSE /\ proc' = "running"
    /\ wire' = <<>>
    /\ stale' = {} /\ unsent' = {} /\ lastSwitch' = NoSurface
    /\ UNCHANGED <<shm_name, changes>>

Next ==
    \/ \E r \in Regions : mux_display_update(r)
    \/ \E s \in Surfaces : mux_display_switch(s)
    \/ QueueSwitch
    \/ mux_display_refresh
    \/ mux_mainloop
    \/ mux_handler
    \/ PeerReceive
    \/ Restart

Spec == Init /\ [][Next]_vars

(* The main loop is a thread that the scheduler keeps running, and the     *)
(* server keeps reading.  The main loop gives out_lock up for each poll of *)
(* 5 ms, so a display thread that blocks on it gets it; and the display    *)
(* keeps ticking, so a refresh that could find lock and slot free again    *)
(* and again finds them free in the end.                                   *)
QueueingRefresh ==
    RefreshFrame /\ RefreshQueues(RefreshBox(dirty_update.box, surface))

FairSpec ==
    /\ Spec
    /\ WF_vars(mux_mainloop) /\ WF_vars(PeerReceive)
    /\ SF_vars(QueueSwitch) /\ SF_vars(QueueingRefresh)
-----------------------------------------------------------------------------
(* The states each variable ranges over.                                   *)
Updates == {Invalid} \cup [type : {"DISPLAY_UPDATE"}, box : Boxes]
               \cup [type : {"DISPLAY_SWITCH"}, surf : Surfaces]

Messages ==
    [type : {"DISPLAY_UPDATE"}, x : Nat, y : Nat, w : Int, h : Int]
        \cup [type : {"DISPLAY_SWITCH"}, format : STRING, w : Nat, h : Nat]
        \cup {ShutdownMsg}

TypeOK ==
    /\ surface \in Surfaces \cup {NoSurface}
    /\ shmem_fd \in {"none", "open"}
    /\ shm_buffer \in {"NULL", "mapped"}
    /\ dirty_update \in Updates /\ dirty_update.type # "DISPLAY_SWITCH"
    /\ out_update \in Updates /\ out \in Updates
    /\ out_ready \in BOOLEAN /\ out_lock \in {"free", "main"}
    /\ hpc \in {"idle", "queue_switch"}
    /\ mpc \in {"lock", "take", "send", "poll", "shutdown", "destroy", "done"}
    /\ interrupted \in BOOLEAN
    /\ proc \in {"running", "crashed", "killed"}
    /\ wire \in Seq(Messages) /\ Len(wire) <= HWM
    /\ shm_name \in BOOLEAN
    /\ changes \in 0 .. MaxChanges /\ restarts \in 0 .. MaxRestarts
    /\ stale \subseteq Pixels(surface) /\ unsent \subseteq Pixels(surface)
    /\ lastSwitch \in Surfaces \cup {NoSurface}

Covers(u, p) == u.type = "DISPLAY_UPDATE" /\ InBox(p, u.box)

(* out_ready and the type of out_update always agree, so the slot test of  *)
(* mux_display_refresh and the two tests of mux_mainloop can never split:  *)
(* no update sits in the slot unnoticed and no empty update is sent.       *)
SlotConsistent ==
    /\ out_ready <=> out_update.type # "MSGTYPE_INVALID"
    /\ mpc = "send" <=> out.type # "MSGTYPE_INVALID"

(* out_lock is held exactly while mux_mainloop is in its critical section. *)
LockHeld == out_lock = "main" <=> mpc = "take"

(* A mapped region has an open descriptor behind it, and mux_display_switch *)
(* only queues a surface that it was given.                                *)
ShmConsistent ==
    /\ shm_buffer = "mapped" => shmem_fd = "open"
    /\ hpc = "queue_switch" => surface \in Surfaces

(* Once the region is mapped, a pixel that differs between the guest's     *)
(* surface and the shared region is still inside the pending dirty box,    *)
(* through every deferral of mux_display_refresh, every alignment and      *)
(* clipping of the box and every surface switch: a later tick copies it.   *)
StalePixelsDirty ==
    shm_buffer = "mapped" => \A p \in stale : Covers(dirty_update, p)

SwitchOwed ==
    \/ hpc = "queue_switch"
    \/ out_update.type = "DISPLAY_SWITCH"
    \/ mpc = "send" /\ out.type = "DISPLAY_SWITCH" /\ out.surf = surface

(* A change of the screen is never forgotten on its way to the socket: as  *)
(* long as no sent message accounts for it, it is inside the dirty box,    *)
(* the queued update or the update being sent, or a DISPLAY_SWITCH for the *)
(* whole surface (which may have replaced the queued update) is on its way. *)
(* Only a termination signal may cost an update.                           *)
DamageNeverLost ==
    shm_buffer = "mapped" /\ ~interrupted =>
        \/ SwitchOwed
        \/ \A p \in unsent :
               \/ Covers(dirty_update, p)
               \/ Covers(out_update, p)
               \/ mpc = "send" /\ Covers(out, p)

(* The newest surface the library announces, or is about to announce, is   *)
(* the one the guest displays: switches may be merged, but the last one is *)
(* neither lost nor overtaken by an older one or by a plain update.        *)
SurfaceAnnounced ==
    shm_buffer = "mapped" /\ hpc = "idle" /\ Running /\ ~interrupted =>
        surface = IF out_update.type = "DISPLAY_SWITCH" THEN out_update.surf
                  ELSE IF mpc = "send" /\ out.type = "DISPLAY_SWITCH"
                  THEN out.surf ELSE lastSwitch

(* SHUTDOWN is the last thing the server ever gets from this process, and  *)
(* it is only sent once mux_mainloop has left its loop.                    *)
ShutdownIsLast ==
    \A i \in 1 .. Len(wire) :
        wire[i].type = "SHUTDOWN" =>
            i = Len(wire) /\ mpc \in {"destroy", "done"}

(* The inductive invariant of the safety proofs.                           *)
IInv ==
    /\ TypeOK /\ SlotConsistent /\ LockHeld /\ ShmConsistent
    /\ StalePixelsDirty /\ DamageNeverLost /\ SurfaceAnnounced
    /\ ShutdownIsLast

(* Every change of the screen is put on the socket in the end, however     *)
(* refreshes, switches and the main loop interleave, unless the process is *)
(* being terminated.                                                       *)
DamageReachesWire ==
    shm_buffer = "mapped" /\ unsent # {}
        ~> unsent = {} \/ interrupted \/ ~Running \/ shm_buffer = "NULL"

(* An interrupted main loop leaves and gives up its socket, wherever the   *)
(* signal finds it, as long as the server keeps reading: a server that     *)
(* does not (MutualBlock of WorkerLoop) keeps it in the send of SHUTDOWN.  *)
InterruptStopsLoop ==
    interrupted ~> mpc = "done" \/ ~Running \/ ~interrupted

(* rdpmux.c:50, of the destination of mux_copy_pixels: "Assumed to be big  *)
(* enough to hold the data being copied into it."                          *)
CopyFitsDestination == proc # "crashed"

(* rdpmux.c:129-132: mux_display_switch creates the region if necessary,   *)
(* copies the framebuffer and "then enqueue[s] a display switch event".    *)
SwitchIsEnqueued ==
    surface # NoSurface =>
        SwitchOwed \/ (mpc = "send" /\ out.type = "DISPLAY_SWITCH")
                   \/ lastSwitch # NoSurface
=============================================================================
