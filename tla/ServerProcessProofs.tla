------------------------ MODULE ServerProcessProofs ------------------------
(***************************************************************************)
(* Proofs about the server processes and the answers to Register: for any  *)
(* number of processes, clients, attempts and starts, and any versions.    *)
(***************************************************************************)
EXTENDS BusBindingProofs

Positions == Running \cup {"down", "starting", "dead"}

(* The types of what belongs to the processes.                             *)
ProcessTypes ==
    /\ ppc \in [Procs -> Positions]
    /\ broker \in [Procs -> BOOLEAN] /\ bound \in [Procs -> BOOLEAN]
    /\ handler \in [Procs -> Handlers \cup {"none"}]
    /\ object \in [Procs -> BOOLEAN]
    /\ owners \in Seq(Procs) /\ successors \subseteq Procs

(* A process has its worker exactly while it runs and is not inside        *)
(* handle_SIGINT; then it has the ipc address, which one process at most   *)
(* has, and only while it runs.                                            *)
SocketExact ==
    /\ \A p \in Procs : broker[p] <=> ppc[p] \in Running /\ handler[p] = "none"
    /\ \A p \in Procs : handler[p] # "none" => ppc[p] \in Running
    /\ \A p \in Procs : ppc[p] \in Running /\ handler[p] = "none" => bound[p]
    /\ \A p \in Procs : bound[p] => ppc[p] \in Running
    /\ \A p, q \in Procs : bound[p] /\ bound[q] => p = q

(* A process queues for the name once at most, from its request until the  *)
(* bus notices its end.                                                    *)
QueueExact ==
    /\ \A i, j \in DOMAIN owners : owners[i] = owners[j] => i = j
    /\ \A i \in DOMAIN owners :
          ppc[owners[i]] \in {"requested", "serving", "dead"}
    /\ \A p \in Procs :
          ppc[p] \in {"requested", "serving"} =>
              \E i \in DOMAIN owners : owners[i] = p

(* While a process that has asked for the name goes on undisturbed, one    *)
(* can be leaving only if one was at that time; and only then can the      *)
(* object go.                                                              *)
SuccessorsExact ==
    \A p \in Procs :
        ppc[p] \in {"requested", "serving"} /\ handler[p] = "none" =>
            /\ (\E q \in Procs : Leaving(q)) => p \in successors
            /\ object[p] \/ p \in successors

ProcessInv == ProcessTypes /\ SocketExact /\ QueueExact /\ SuccessorsExact

(* What is left of a queue when a process leaves it: the others, once each *)
(* at most.                                                                *)
LEMMA LeavesOthers ==
    ASSUME NEW queue \in Seq(Procs), NEW p \in Procs, NEW left,
           left = Leaves(queue, p),
           \A i, j \in DOMAIN queue : queue[i] = queue[j] => i = j
    PROVE  /\ left \in Seq(Procs)
           /\ \A i, j \in DOMAIN left : left[i] = left[j] => i = j
           /\ \A i \in DOMAIN left :
                 left[i] # p /\ \E j \in DOMAIN queue : left[i] = queue[j]
           /\ \A j \in DOMAIN queue :
                 queue[j] # p => \E i \in DOMAIN left : left[i] = queue[j]
<1>0. /\ Len(queue) \in Nat /\ DOMAIN queue = 1 .. Len(queue)
      /\ \A i \in 1 .. Len(queue) : queue[i] \in Procs
  BY LenProperties, ElementOfSeq
<1>1. CASE \A i \in DOMAIN queue : queue[i] # p
  <2>1. left = queue
    BY <1>1 DEF Leaves
  <2> QED
    BY <1>1, <2>1
<1>2. CASE ~ \A i \in DOMAIN queue : queue[i] # p
  <2>0. PICK n \in 1 .. Len(queue) :
           /\ queue[n] = p
           /\ left = SubSeq(queue, 1, n - 1)
                     \o SubSeq(queue, n + 1, Len(queue))
    <3> DEFINE m == CHOOSE i \in DOMAIN queue : queue[i] = p
    <3>1. m \in 1 .. Len(queue) /\ queue[m] = p
      BY <1>0, <1>2
    <3>2. left = SubSeq(queue, 1, m - 1) \o SubSeq(queue, m + 1, Len(queue))
      BY <1>2 DEF Leaves
    <3> QED
      BY <3>1, <3>2
  <2>1. queue[n] = p
    BY <2>0
  <2>2. PICK s, t : /\ s = SubSeq(queue, 1, n - 1)
                    /\ t = SubSeq(queue, n + 1, Len(queue))
                    /\ left = s \o t
    BY <2>0
  <2>3. /\ s \in Seq(Procs) /\ Len(s) = n - 1
        /\ \A i \in 1 .. n - 1 : s[i] = queue[i]
    <3>1. n - 1 \in Int /\ \A i \in 1 .. n - 1 : queue[i] \in Procs
      BY <1>0
    <3> QED
      BY <1>0, <2>2, <3>1, SubSeqProperties
  <2>4. /\ t \in Seq(Procs) /\ Len(t) = Len(queue) - n
        /\ \A i \in 1 .. Len(queue) - n : t[i] = queue[n + i]
    <3>1. /\ n + 1 \in Int /\ Len(queue) \in Int
          /\ \A i \in n + 1 .. Len(queue) : queue[i] \in Procs
      BY <1>0
    <3>2. /\ t \in Seq(Procs)
          /\ Len(t) = IF n + 1 <= Len(queue)
                      THEN Len(queue) - (n + 1) + 1 ELSE 0
          /\ \A i \in 1 .. Len(queue) - (n + 1) + 1 :
                t[i] = queue[(n + 1) + i - 1]
      BY <2>2, <3>1, SubSeqProperties
    <3>3. Len(t) = Len(queue) - n
      BY <1>0, <3>2
    <3>4. ASSUME NEW i \in 1 .. Len(queue) - n
          PROVE  t[i] = queue[n + i]
      <4>1. /\ i \in 1 .. Len(queue) - (n + 1) + 1
            /\ (n + 1) + i - 1 = n + i
        BY <1>0
      <4> QED
        BY <3>2, <4>1
    <3> QED
      BY <3>2, <3>3, <3>4
  <2>5. /\ left \in Seq(Procs) /\ Len(left) = Len(queue) - 1
        /\ \A i \in 1 .. Len(left) :
              left[i] = IF i <= n - 1 THEN s[i] ELSE t[i - (n - 1)]
    <3>1. /\ s \o t \in Seq(Procs) /\ Len(s \o t) = Len(s) + Len(t)
          /\ \A i \in 1 .. Len(s) + Len(t) :
                (s \o t)[i] = IF i <= Len(s) THEN s[i] ELSE t[i - Len(s)]
      BY <2>3, <2>4, ConcatProperties
    <3>2. Len(s) + Len(t) = Len(queue) - 1 /\ Len(s) = n - 1
      BY <1>0, <2>1, <2>3, <2>4
    <3> QED
      BY <2>2, <3>1, <3>2
  <2>6. DOMAIN left = 1 .. Len(queue) - 1
    BY <2>5, LenProperties
  <2>7. \A i \in DOMAIN left :
           left[i] = IF i < n THEN queue[i] ELSE queue[i + 1]
    <3> SUFFICES ASSUME NEW i \in DOMAIN left
                 PROVE  left[i] = IF i < n THEN queue[i] ELSE queue[i + 1]
      OBVIOUS
    <3>1. CASE i < n
      BY <1>0, <2>1, <2>3, <2>5, <2>6, <3>1
    <3>2. CASE ~(i < n)
      <4>1. /\ i - (n - 1) \in 1 .. Len(queue) - n /\ ~(i <= n - 1)
            /\ n + (i - (n - 1)) = i + 1
        BY <1>0, <2>1, <2>6, <3>2
      <4> QED
        BY <2>4, <2>5, <2>6, <3>2, <4>1
    <3> QED
      BY <3>1, <3>2
  <2>8. \A i, j \in DOMAIN left : left[i] = left[j] => i = j
    BY <1>0, <2>1, <2>6, <2>7
  <2>9. \A i \in DOMAIN left :
           left[i] # p /\ \E j \in DOMAIN queue : left[i] = queue[j]
    <3> SUFFICES ASSUME NEW i \in DOMAIN left
                 PROVE  /\ left[i] # p
                        /\ \E j \in DOMAIN queue : left[i] = queue[j]
      OBVIOUS
    <3>1. PICK j \in DOMAIN queue : left[i] = queue[j] /\ j # n
      BY <1>0, <2>1, <2>6, <2>7
    <3> QED
      BY <1>0, <2>1, <3>1
  <2>10. ASSUME NEW j \in DOMAIN queue, queue[j] # p
         PROVE  \E i \in DOMAIN left : left[i] = queue[j]
    <3>1. CASE j < n
      <4>1. j \in DOMAIN left
        BY <1>0, <2>1, <2>6, <3>1
      <4> QED
        BY <2>7, <3>1, <4>1
    <3>2. CASE ~(j < n)
      <4>1. j # n
        BY <2>1, <2>10
      <4>2. j - 1 \in DOMAIN left /\ ~(j - 1 < n) /\ (j - 1) + 1 = j
        BY <1>0, <2>1, <2>6, <3>2, <4>1
      <4> QED
        BY <2>7, <4>2
    <3> QED
      BY <3>1, <3>2
  <2> QED
    BY <2>5, <2>8, <2>9, <2>10
<1> QED
  BY <1>1, <1>2

(* A process is started, and begins to run if nobody has the address.      *)
LEMMA StartKeepsProcesses ==
    ASSUME ProcessInv, NEW p \in Procs,
           process_options(p) \/ \E port \in StartPorts : main(p, port)
    PROVE  ProcessInv'
<1>0. ProcessTypes /\ SocketExact /\ QueueExact /\ SuccessorsExact
  BY DEF ProcessInv
<1>1. UNCHANGED <<handler, object, owners, successors>>
  BY DEF process_options, main
<1>2. /\ ppc \in [Procs -> Positions]
      /\ broker \in [Procs -> BOOLEAN] /\ bound \in [Procs -> BOOLEAN]
  BY <1>0 DEF ProcessTypes
<1>3. PICK to \in {"down", "starting", "waiting"} :
         /\ ppc[p] \in {"down", "starting"} /\ ppc' = [ppc EXCEPT ![p] = to]
         /\ broker' = [broker EXCEPT ![p] = (to = "waiting")]
         /\ bound' = [bound EXCEPT ![p] = (to = "waiting")]
         /\ to = "waiting" => \A q \in Procs : ~bound[q]
  <2>1. CASE process_options(p)
    <3>1. ppc[p] = "down" /\ ppc' = [ppc EXCEPT ![p] = "starting"]
          /\ broker' = broker /\ bound' = bound
      BY <2>1 DEF process_options
    <3>2. broker[p] = FALSE /\ bound[p] = FALSE
      BY <1>0, <1>2, <3>1 DEF SocketExact, Running
    <3>3. /\ broker' = [broker EXCEPT ![p] = FALSE]
          /\ bound' = [bound EXCEPT ![p] = FALSE]
      BY <1>2, <3>1, <3>2
    <3> QED
      BY <3>1, <3>3
  <2>2. ASSUME NEW port \in StartPorts, main(p, port)
        PROVE  \E to \in {"down", "waiting"} :
                  /\ ppc[p] = "starting" /\ ppc' = [ppc EXCEPT ![p] = to]
                  /\ broker' = [broker EXCEPT ![p] = (to = "waiting")]
                  /\ bound' = [bound EXCEPT ![p] = (to = "waiting")]
                  /\ to = "waiting" => \A q \in Procs : ~bound[q]
    <3>1. CASE ValidPort(port) /\ \A q \in Procs : ~bound[q]
      BY <2>2, <3>1 DEF main
    <3>2. CASE ~(ValidPort(port) /\ \A q \in Procs : ~bound[q])
      <4>1. /\ ppc[p] = "starting" /\ ppc' = [ppc EXCEPT ![p] = "down"]
            /\ broker' = [broker EXCEPT ![p] = FALSE]
            /\ bound' = [bound EXCEPT ![p] = FALSE]
        BY <2>2, <3>2 DEF main
      <4> QED
        BY <4>1
    <3> QED
      BY <3>1, <3>2
  <2> QED
    BY <2>1, <2>2
<1>4. /\ ppc'[p] = to /\ broker'[p] = (to = "waiting")
      /\ bound'[p] = (to = "waiting")
      /\ \A q \in Procs \ {p} :
            /\ ppc'[q] = ppc[q] /\ broker'[q] = broker[q]
            /\ bound'[q] = bound[q]
  BY <1>2, <1>3
<1>5. ProcessTypes'
  BY <1>0, <1>1, <1>3 DEF ProcessTypes, Positions, Running
<1>6. handler[p] = "none"
  BY <1>0, <1>3 DEF SocketExact, Running
<1>7. SocketExact'
  <2>1. /\ broker'[p] <=> ppc'[p] \in Running /\ handler'[p] = "none"
        /\ handler'[p] = "none"
        /\ ppc'[p] \in Running <=> bound'[p]
    BY <1>1, <1>3, <1>4, <1>6 DEF Running
  <2>2. ASSUME NEW q \in Procs, q # p
        PROVE  /\ broker'[q] <=> ppc'[q] \in Running /\ handler'[q] = "none"
               /\ handler'[q] # "none" => ppc'[q] \in Running
               /\ ppc'[q] \in Running /\ handler'[q] = "none" => bound'[q]
               /\ bound'[q] => ppc'[q] \in Running
    BY <1>0, <1>1, <1>4, <2>2 DEF SocketExact
  <2>3. ASSUME NEW q \in Procs, NEW r \in Procs, bound'[q], bound'[r]
        PROVE  q = r
    <3>1. CASE to = "waiting"
      BY <1>3, <1>4, <2>3, <3>1
    <3>2. CASE to # "waiting"
      <4>1. q # p /\ r # p
        BY <1>4, <2>3, <3>2
      <4> QED
        BY <1>0, <1>4, <2>3, <4>1 DEF SocketExact
    <3> QED
      BY <3>1, <3>2
  <2> QED
    BY <2>1, <2>2, <2>3 DEF SocketExact
<1>8. \A i \in DOMAIN owners : owners[i] \in Procs /\ owners[i] # p
  <2>1. owners \in Seq(Procs)
    BY <1>0 DEF ProcessTypes
  <2> QED
    BY <1>0, <1>3, <2>1, ElementOfSeq, LenProperties DEF QueueExact
<1>9. QueueExact'
  BY <1>0, <1>1, <1>4, <1>8 DEF QueueExact
<1>10. \A q \in Procs : Leaving(q)' => Leaving(q)
  BY <1>4 DEF Leaving, Running
<1>11. SuccessorsExact'
  BY <1>0, <1>1, <1>4, <1>10 DEF SuccessorsExact
<1> QED
  BY <1>5, <1>7, <1>9, <1>11 DEF ProcessInv

(* It exports its object and queues for the name.                          *)
LEMMA RequestKeepsProcesses ==
    ASSUME ProcessInv, NEW p \in Procs, on_bus_acquired(p)
    PROVE  ProcessInv'
<1>0. ProcessTypes /\ SocketExact /\ QueueExact /\ SuccessorsExact
  BY DEF ProcessInv
<1>1. /\ ppc[p] = "waiting" /\ ppc' = [ppc EXCEPT ![p] = "requested"]
      /\ object' = [object EXCEPT ![p] = TRUE]
      /\ owners' = Append(owners, p)
      /\ successors' = IF \E q \in Procs : Leaving(q)
                       THEN successors \cup {p} ELSE successors \ {p}
      /\ UNCHANGED <<broker, bound, handler>>
  BY DEF on_bus_acquired
<1>2. /\ ppc \in [Procs -> Positions]
      /\ object \in [Procs -> BOOLEAN] /\ owners \in Seq(Procs)
      /\ successors \subseteq Procs
  BY <1>0 DEF ProcessTypes
<1>3. /\ ppc'[p] = "requested" /\ object'[p]
      /\ \A q \in Procs \ {p} : ppc'[q] = ppc[q] /\ object'[q] = object[q]
      /\ \A q \in Procs \ {p} : q \in successors' <=> q \in successors
      /\ (\E q \in Procs : Leaving(q)) => p \in successors'
  BY <1>1, <1>2
<1>4. /\ owners' \in Seq(Procs)
      /\ DOMAIN owners' = 1 .. Len(owners) + 1
      /\ DOMAIN owners = 1 .. Len(owners)
      /\ Len(owners) \in Nat
      /\ \A i \in 1 .. Len(owners) : owners'[i] = owners[i]
      /\ owners'[Len(owners) + 1] = p
  BY <1>1, <1>2, AppendProperties, LenProperties
<1>5. ProcessTypes'
  BY <1>0, <1>1, <1>2, <1>4 DEF ProcessTypes, Positions, Running
<1>6. SocketExact'
  BY <1>0, <1>1, <1>3 DEF SocketExact, Running
<1>7. \A i \in DOMAIN owners : owners[i] \in Procs /\ owners[i] # p
  BY <1>0, <1>1, <1>2, ElementOfSeq, LenProperties DEF QueueExact
<1>8. QueueExact'
  <2>1. \A i, j \in DOMAIN owners' : owners'[i] = owners'[j] => i = j
    BY <1>0, <1>4, <1>7 DEF QueueExact
  <2>2. \A i \in DOMAIN owners' :
           ppc'[owners'[i]] \in {"requested", "serving", "dead"}
    BY <1>0, <1>3, <1>4, <1>7 DEF QueueExact
  <2>3. ASSUME NEW q \in Procs, ppc'[q] \in {"requested", "serving"}
        PROVE  \E i \in DOMAIN owners' : owners'[i] = q
    <3>1. CASE q = p
      <4>1. Len(owners) + 1 \in DOMAIN owners'
        BY <1>4
      <4> QED
        BY <1>4, <3>1, <4>1
    <3>2. CASE q # p
      <4>1. PICK i \in DOMAIN owners : owners[i] = q
        BY <1>0, <1>3, <2>3, <3>2 DEF QueueExact
      <4>2. i \in DOMAIN owners' /\ owners'[i] = q
        BY <1>4, <4>1
      <4> QED
        BY <4>2
    <3> QED
      BY <3>1, <3>2
  <2> QED
    BY <2>1, <2>2, <2>3 DEF QueueExact
<1>9. \A q \in Procs : Leaving(q)' => Leaving(q)
  BY <1>1, <1>3 DEF Leaving, Running
<1>10. SuccessorsExact'
  BY <1>0, <1>1, <1>3, <1>9 DEF SuccessorsExact
<1> QED
  BY <1>5, <1>6, <1>8, <1>10 DEF ProcessInv

(* It gets the name, or learns that another process has it: one that is    *)
(* leaving, for nobody else has the address.                               *)
LEMMA NameKeepsProcesses ==
    ASSUME ProcessInv, NEW p \in Procs, on_name_acquired(p) \/ on_name_lost(p)
    PROVE  ProcessInv'
<1>0. ProcessTypes /\ SocketExact /\ QueueExact /\ SuccessorsExact
  BY DEF ProcessInv
<1>1. /\ ppc[p] = "requested"
      /\ UNCHANGED <<broker, bound, handler, owners, successors>>
  BY DEF on_name_acquired, on_name_lost
<1>2. /\ ppc \in [Procs -> Positions]
      /\ object \in [Procs -> BOOLEAN] /\ owners \in Seq(Procs)
  BY <1>0 DEF ProcessTypes
<1>3. CASE on_name_acquired(p)
  <2>1. ppc' = [ppc EXCEPT ![p] = "serving"] /\ UNCHANGED object
    BY <1>3 DEF on_name_acquired
  <2>2. ppc'[p] = "serving" /\ \A q \in Procs \ {p} : ppc'[q] = ppc[q]
    BY <1>2, <2>1
  <2>3. ProcessTypes'
    BY <1>0, <1>1, <2>1 DEF ProcessTypes, Positions, Running
  <2>4. SocketExact'
    BY <1>0, <1>1, <2>2 DEF SocketExact, Running
  <2>5. \A i \in DOMAIN owners : owners[i] \in Procs
    BY <1>2, ElementOfSeq, LenProperties
  <2>6. QueueExact'
    BY <1>0, <1>1, <2>2, <2>5 DEF QueueExact
  <2>7. \A q \in Procs : Leaving(q)' => Leaving(q)
    BY <1>1, <2>2 DEF Leaving, Running
  <2>8. SuccessorsExact'
    BY <1>0, <1>1, <2>1, <2>2, <2>7 DEF SuccessorsExact
  <2> QED
    BY <2>3, <2>4, <2>6, <2>8 DEF ProcessInv
<1>4. CASE on_name_lost(p)
  <2>1. /\ object' = [object EXCEPT ![p] = FALSE] /\ UNCHANGED ppc
        /\ Head(owners) # p
    BY <1>4 DEF on_name_lost
  <2>2. \A q \in Procs \ {p} : object'[q] = object[q]
    BY <1>2, <2>1
  <2>3. PICK k \in DOMAIN owners : owners[k] = p
    BY <1>0, <1>1 DEF QueueExact
  <2>4. PICK q \in Procs :
           q = Head(owners) /\ 1 \in DOMAIN owners /\ q = owners[1]
    <3>1. DOMAIN owners = 1 .. Len(owners) /\ Len(owners) \in Nat
      BY <1>2, LenProperties
    <3>2. 1 \in 1 .. Len(owners) /\ owners # <<>>
      BY <1>2, <2>3, <3>1, EmptySeq
    <3>3. Head(owners) = owners[1] /\ owners[1] \in Procs
      BY <1>2, <3>2, ElementOfSeq
    <3> QED
      BY <3>1, <3>2, <3>3
  <2>5. ppc[q] \in {"requested", "serving", "dead"} /\ q # p
    BY <1>0, <2>1, <2>4 DEF QueueExact
  <2>6. handler[p] = "none" => Leaving(q)
    BY <1>0, <1>1, <2>5 DEF SocketExact, Leaving, Running
  <2>7. handler[p] = "none" => p \in successors
    BY <1>0, <1>1, <2>6 DEF SuccessorsExact
  <2>8. \A r \in Procs : Leaving(r)' => Leaving(r)
    BY <1>1, <2>1 DEF Leaving
  <2>9. SuccessorsExact'
    BY <1>0, <1>1, <2>1, <2>2, <2>7, <2>8 DEF SuccessorsExact
  <2>10. ProcessTypes' /\ SocketExact' /\ QueueExact'
    BY <1>0, <1>1, <2>1 DEF ProcessTypes, SocketExact, QueueExact
  <2> QED
    BY <2>9, <2>10 DEF ProcessInv
<1> QED
  BY <1>3, <1>4

(* It is interrupted, and its worker is destroyed, or not.                 *)
LEMMA SignalKeepsProcesses ==
    ASSUME ProcessInv, NEW p \in Procs,
           worker_destroyed(p) \/ \E t \in Handlers : handle_SIGINT(p, t)
    PROVE  ProcessInv'
<1>0. ProcessTypes /\ SocketExact /\ QueueExact /\ SuccessorsExact
  BY DEF ProcessInv
<1>1. UNCHANGED <<ppc, object, owners, successors>>
  BY DEF worker_destroyed, handle_SIGINT
<1>2. /\ broker \in [Procs -> BOOLEAN] /\ bound \in [Procs -> BOOLEAN]
      /\ handler \in [Procs -> Handlers \cup {"none"}]
  BY <1>0 DEF ProcessTypes
<1>3. QueueExact'
  BY <1>0, <1>1 DEF QueueExact
<1>4. ASSUME NEW t \in Handlers, handle_SIGINT(p, t)
      PROVE  ProcessInv'
  <2>1. /\ ppc[p] \in Running /\ handler' = [handler EXCEPT ![p] = t]
        /\ broker' = [broker EXCEPT ![p] = FALSE] /\ UNCHANGED bound
    BY <1>4 DEF handle_SIGINT
  <2>2. /\ handler'[p] = t /\ t # "none" /\ broker'[p] = FALSE
        /\ \A q \in Procs \ {p} :
              handler'[q] = handler[q] /\ broker'[q] = broker[q]
    BY <1>2, <2>1 DEF Handlers
  <2>3. ProcessTypes'
    BY <1>0, <1>1, <1>2, <2>1 DEF ProcessTypes
  <2>4. SocketExact'
    BY <1>0, <1>1, <2>1, <2>2 DEF SocketExact
  <2>5. \A q \in Procs : Leaving(q)' => Leaving(q)
    BY <1>1, <2>1 DEF Leaving
  <2>6. SuccessorsExact'
    BY <1>0, <1>1, <2>2, <2>5 DEF SuccessorsExact
  <2> QED
    BY <1>3, <2>3, <2>4, <2>6 DEF ProcessInv
<1>5. CASE worker_destroyed(p)
  <2>1. /\ handler[p] # "none" /\ bound[p]
        /\ bound' = [bound EXCEPT ![p] = FALSE]
        /\ UNCHANGED <<broker, handler>>
    BY <1>5 DEF worker_destroyed
  <2>2. bound'[p] = FALSE /\ \A q \in Procs \ {p} : bound'[q] = bound[q]
    BY <1>2, <2>1
  <2>3. ProcessTypes'
    BY <1>0, <1>1, <1>2, <2>1 DEF ProcessTypes
  <2>4. SocketExact'
    BY <1>0, <1>1, <2>1, <2>2 DEF SocketExact
  <2>5. \A q \in Procs : ppc[q] \in {"requested", "serving"}
                          => handler[q] # "none"
    BY <1>0, <2>1 DEF SocketExact, Running
  <2>6. SuccessorsExact'
    BY <1>1, <2>1, <2>5 DEF SuccessorsExact
  <2> QED
    BY <1>3, <2>3, <2>4, <2>6 DEF ProcessInv
<1> QED
  BY <1>4, <1>5

(* It dies: it leaves from now on, if it did not do so before.             *)
LEMMA DeathKeepsProcesses ==
    ASSUME ProcessInv, NEW p \in Procs, process_dies(p)
    PROVE  ProcessInv'
<1>0. ProcessTypes /\ SocketExact /\ QueueExact /\ SuccessorsExact
  BY DEF ProcessInv
<1>1. /\ ppc[p] \in Running /\ ppc' = [ppc EXCEPT ![p] = "dead"]
      /\ broker' = [broker EXCEPT ![p] = FALSE]
      /\ bound' = [bound EXCEPT ![p] = FALSE]
      /\ handler' = [handler EXCEPT ![p] = "none"]
      /\ object' = [object EXCEPT ![p] = FALSE]
      /\ UNCHANGED <<owners, successors>>
  BY DEF process_dies
<1>2. /\ ppc \in [Procs -> Positions]
      /\ broker \in [Procs -> BOOLEAN] /\ bound \in [Procs -> BOOLEAN]
      /\ handler \in [Procs -> Handlers \cup {"none"}]
      /\ object \in [Procs -> BOOLEAN] /\ owners \in Seq(Procs)
      /\ \A i \in DOMAIN owners : owners[i] \in Procs
  BY <1>0, ElementOfSeq, LenProperties DEF ProcessTypes
<1>3. /\ ppc'[p] = "dead" /\ broker'[p] = FALSE /\ bound'[p] = FALSE
      /\ handler'[p] = "none"
      /\ \A q \in Procs \ {p} :
            /\ ppc'[q] = ppc[q] /\ broker'[q] = broker[q]
            /\ bound'[q] = bound[q] /\ handler'[q] = handler[q]
            /\ object'[q] = object[q]
  BY <1>1, <1>2
<1>4. ProcessTypes'
  BY <1>0, <1>1, <1>2 DEF ProcessTypes, Positions
<1>5. SocketExact'
  BY <1>0, <1>3 DEF SocketExact, Running
<1>6. QueueExact'
  BY <1>0, <1>1, <1>2, <1>3 DEF QueueExact
<1>7. SuccessorsExact'
  <2> SUFFICES ASSUME NEW q \in Procs, q # p,
                      ppc[q] \in {"requested", "serving"},
                      handler[q] = "none"
               PROVE  q \in successors
    BY <1>1, <1>3 DEF SuccessorsExact
  <2>1. Leaving(p)
    BY <1>0, <1>1 DEF SocketExact, Leaving, Running
  <2> QED
    BY <1>0, <2>1 DEF SuccessorsExact
<1> QED
  BY <1>4, <1>5, <1>6, <1>7 DEF ProcessInv

(* The bus takes it out of the queue.                                      *)
LEMMA DropKeepsProcesses ==
    ASSUME ProcessInv, NEW p \in Procs, bus_drops_name(p)
    PROVE  ProcessInv'
<1>0. ProcessTypes /\ SocketExact /\ QueueExact /\ SuccessorsExact
  BY DEF ProcessInv
<1>1. /\ ppc[p] = "dead" /\ ppc' = [ppc EXCEPT ![p] = "down"]
      /\ owners' = Leaves(owners, p)
      /\ UNCHANGED <<broker, bound, handler, object, successors>>
  BY DEF bus_drops_name
<1>2. /\ ppc \in [Procs -> Positions] /\ owners \in Seq(Procs)
      /\ \A i \in DOMAIN owners : owners[i] \in Procs
  BY <1>0, ElementOfSeq, LenProperties DEF ProcessTypes
<1>3. ppc'[p] = "down" /\ \A q \in Procs \ {p} : ppc'[q] = ppc[q]
  BY <1>1, <1>2
<1>4. \A i, j \in DOMAIN owners : owners[i] = owners[j] => i = j
  BY <1>0 DEF QueueExact
<1>5. /\ owners' \in Seq(Procs)
      /\ \A i, j \in DOMAIN owners' : owners'[i] = owners'[j] => i = j
      /\ \A i \in DOMAIN owners' :
            owners'[i] # p /\ \E j \in DOMAIN owners : owners'[i] = owners[j]
      /\ \A j \in DOMAIN owners :
            owners[j] # p => \E i \in DOMAIN owners' : owners'[i] = owners[j]
  <2>1. PICK left : left = owners'
    OBVIOUS
  <2> QED
    BY <1>1, <1>2, <1>4, <2>1, LeavesOthers
<1>6. ProcessTypes'
  BY <1>0, <1>1, <1>5 DEF ProcessTypes, Positions
<1>7. SocketExact'
  BY <1>0, <1>1, <1>3 DEF SocketExact, Running
<1>8. QueueExact'
  BY <1>0, <1>2, <1>3, <1>5 DEF QueueExact
<1>9. \A q \in Procs : Leaving(q)' => Leaving(q)
  BY <1>1, <1>3 DEF Leaving, Running
<1>10. SuccessorsExact'
  BY <1>0, <1>1, <1>3, <1>9 DEF SuccessorsExact
<1> QED
  BY <1>6, <1>7, <1>8, <1>10 DEF ProcessInv

LEMMA ProcessAlways == Spec => []ProcessInv
<1>1. Init => ProcessInv
  <2> SUFFICES ASSUME Init PROVE ProcessInv
    OBVIOUS
  <2>1. /\ ppc = [p \in Procs |-> "down"] /\ broker = [p \in Procs |-> FALSE]
        /\ bound = [p \in Procs |-> FALSE]
        /\ handler = [p \in Procs |-> "none"]
        /\ object = [p \in Procs |-> FALSE]
        /\ owners = <<>> /\ successors = {}
    BY DEF Init
  <2>2. owners \in Seq(Procs) /\ DOMAIN owners = {}
    BY <2>1, EmptySeq
  <2> QED
    BY <2>1, <2>2
    DEF ProcessInv, ProcessTypes, SocketExact, QueueExact, SuccessorsExact,
        Running, Positions
<1>2. ProcessInv /\ [Next]_vars => ProcessInv'
  <2> SUFFICES ASSUME ProcessInv, [Next]_vars PROVE ProcessInv'
    OBVIOUS
  <2>1. CASE UNCHANGED processVars
    BY <2>1 DEF processVars, ProcessInv, ProcessTypes, SocketExact,
       QueueExact, SuccessorsExact, Leaving
  <2>2. ASSUME NEW p \in Procs,
               \/ process_options(p)
               \/ \E port \in StartPorts : main(p, port)
               \/ on_bus_acquired(p) \/ on_name_acquired(p)
               \/ on_name_lost(p)
               \/ \E t \in Handlers : handle_SIGINT(p, t)
               \/ worker_destroyed(p) \/ process_dies(p) \/ bus_drops_name(p)
        PROVE  ProcessInv'
    BY <2>2, StartKeepsProcesses, RequestKeepsProcesses, NameKeepsProcesses,
       SignalKeepsProcesses, DeathKeepsProcesses, DropKeepsProcesses
  <2>3. CASE \/ Service \/ InterfaceCalls
             \/ \E x \in Calls :
                   \/ skeleton_handle_method_call(x) \/ complete_register(x)
                   \/ \E p \in Procs :
                         \/ on_method_call(p, x) \/ no_such_object(p, x)
                         \/ send_reply(p, x)
             \/ \E c \in Clients :
                   \/ \E obj \in {"obj", Null} : mux_get_socket_path(c, obj)
                   \/ ClientSteps(c) \/ Deliver(c)
             \/ UNCHANGED vars
    <3>1. UNCHANGED processVars
      BY <2>3 DEF Service, InterfaceCalls, skeleton_handle_method_call,
         complete_register, on_method_call, no_such_object, send_reply,
         mux_get_socket_path, ClientSteps, proxy_new_for_bus_sync, call_register_sync, register_returns,
         register_timeout, Deliver, vars
    <3> QED
      BY <2>1, <3>1
  <2> QED
    BY <2>2, <2>3 DEF Next, ServerNext
<1> QED
  BY <1>1, <1>2, PTL DEF Spec

(* A process that has the well-known name and is not inside handle_SIGINT  *)
(* has its worker, and its object unless it asked for the name while       *)
(* another process was leaving: dead with the bus unaware of it, or inside *)
(* the handler with its worker destroyed.  For any number of processes     *)
(* that start, die and are interrupted on any thread in any order.         *)
THEOREM NameOwnersServe == Spec => []NameOwnerServes
<1>1. ProcessInv => NameOwnerServes
  BY DEF ProcessInv, SocketExact, SuccessorsExact, NameOwnerServes, Running
<1> QED
  BY <1>1, ProcessAlways, PTL
-----------------------------------------------------------------------------
(* The states of a call; those after its registration, and those in which  *)
(* none was made.  A call that ended with an error may have had one.       *)
CallStates == Unanswered \cup {"none", "path", "empty", "error"}
Made == {"queued_path", "path"}
Unmade == {"none", "sent", "handled", "queued_empty", "empty"}

(* The registrations of a call.                                            *)
Registered(x) == {r \in ever : r.who = x}

CallTypes ==
    /\ attempt \in [Clients -> 0 .. MaxAttempts]
    /\ phase \in [Clients -> {"idle", "connecting", "checking", "called",
                              "true", "false"}]
    /\ out_path \in [Clients -> {Null, "path", "empty"}]
    /\ call \in [Calls -> [state : CallStates, to : Procs \cup {Null}]]

(* A call that has not been made yet has no state; the call of a client    *)
(* that has returned has the state that the client was told of, unless it  *)
(* did not wait for it.                                                    *)
CallsInTurn ==
    \A c \in Clients :
        /\ phase[c] = "idle" => attempt[c] = 0
        /\ phase[c] # "idle" => attempt[c] > 0
        /\ \A k \in 1 .. MaxAttempts :
              k > attempt[c] => call[<<c, k>>].state = "none"
        /\ phase[c] \in {"connecting", "checking"} =>
              call[Current(c)].state = "none"
        /\ phase[c] = "true" =>
              /\ call[Current(c)].state \in {"path", "empty"}
              /\ out_path[c] = call[Current(c)].state
        /\ phase[c] = "false" =>
              \/ call[Current(c)].state \in {"none", "error"}
              \/ Current(c) \in late

(* The calls with a path as their answer are registered, and those without *)
(* an answer or with an empty one are not.                                 *)
PathMeansRegistered ==
    /\ \A r \in ever : r.who \in Calls /\ r.version = LibVersion
    /\ \A x \in Calls : call[x].state \in Made => Registered(x) # {}
    /\ \A x \in Calls : call[x].state \in Unmade => Registered(x) = {}

AnswerInv == CallTypes /\ CallsInTurn /\ PathMeansRegistered

(* A call that a client makes is one of Calls.                             *)
LEMMA CurrentIsCall ==
    ASSUME CallTypes, CallsInTurn, NEW c \in Clients, phase[c] # "idle"
    PROVE  Current(c) \in Calls
<1>1. attempt[c] \in 0 .. MaxAttempts /\ attempt[c] > 0
  BY DEF CallTypes, CallsInTurn
<1>2. attempt[c] \in 1 .. MaxAttempts
  BY <1>1, RegistrationAssumption
<1> QED
  BY <1>2 DEF Current, Calls

(* The types of a call whose state changes.                                *)
LEMMA AnswerTypes ==
    ASSUME CallTypes, NEW x \in Calls,
           NEW a \in CallStates, Answer(x, a)
    PROVE  /\ call' \in [Calls -> [state : CallStates, to : Procs \cup {Null}]]
           /\ call'[x].state = a
           /\ \A y \in Calls \ {x} : call'[y] = call[y]
<1>1. call' = [call EXCEPT ![x].state = a]
  BY DEF Answer
<1>2. call[x] \in [state : CallStates, to : Procs \cup {Null}]
  BY DEF CallTypes
<1> QED
  BY <1>1, <1>2 DEF CallTypes

(* A step in which only calls under way change leaves the clients right.   *)
LEMMA OpenCallsOnly ==
    ASSUME CallTypes, CallsInTurn,
           UNCHANGED <<attempt, phase, out_path, late>>,
           \A x \in Calls : \/ call'[x].state = call[x].state
                            \/ call[x].state \in Unanswered
    PROVE  CallsInTurn'
<1> SUFFICES ASSUME NEW c \in Clients
             PROVE  /\ phase[c] = "idle" => attempt[c] = 0
                    /\ phase[c] # "idle" => attempt[c] > 0
                    /\ \A k \in 1 .. MaxAttempts :
                          k > attempt[c] => call'[<<c, k>>].state = "none"
                    /\ phase[c] \in {"connecting", "checking"} =>
                          call'[Current(c)].state = "none"
                    /\ phase[c] = "true" =>
                          /\ call'[Current(c)].state \in {"path", "empty"}
                          /\ out_path[c] = call'[Current(c)].state
                    /\ phase[c] = "false" =>
                          \/ call'[Current(c)].state \in {"none", "error"}
                          \/ Current(c) \in late
  BY DEF CallsInTurn, Current
<1>1. phase[c] # "idle" => Current(c) \in Calls
  BY CurrentIsCall
<1>2. \A k \in 1 .. MaxAttempts : <<c, k>> \in Calls
  BY DEF Calls
<1> QED
  BY <1>1, <1>2 DEF CallsInTurn, Unanswered, Queued

(* A call is answered, by a server process or a handler.                   *)
LEMMA AnswersKeepAnswers ==
    ASSUME AnswerInv, NEW x \in Calls,
           \/ skeleton_handle_method_call(x) \/ complete_register(x)
           \/ \E p \in Procs : \/ on_method_call(p, x) \/ no_such_object(p, x)
                               \/ send_reply(p, x)
    PROVE  AnswerInv'
<1>0. CallTypes /\ CallsInTurn /\ PathMeansRegistered
  BY DEF AnswerInv
<1> DEFINE n == [who |-> x, version |-> LibVersion]
           Effect(a) ==
              \/ a \in Made /\ ever' = ever \cup {n}
              \/ /\ UNCHANGED ever
                 /\ a \in Made => call[x].state \in Made
                 /\ a \in Unmade => call[x].state \in Unmade
<1>1. /\ call[x].state \in Unanswered
      /\ UNCHANGED <<attempt, phase, out_path, late>>
      /\ \E a \in CallStates : Answer(x, a) /\ Effect(a)
  <2>1. CASE skeleton_handle_method_call(x)
    BY <2>1 DEF skeleton_handle_method_call, clientVars, Unanswered, CallStates,
       Made, Unmade
  <2>2. CASE complete_register(x)
    BY <2>2 DEF complete_register, clientVars, Unanswered, CallStates, Made,
       Unmade
  <2>3. ASSUME NEW p \in Procs, on_method_call(p, x)
        PROVE  /\ call[x].state = "sent"
               /\ UNCHANGED <<attempt, phase, out_path, late>>
               /\ \E a \in {"queued_path", "queued_empty"} :
                     Answer(x, a) /\ Effect(a)
    <3>1. /\ call[x].state = "sent"
          /\ UNCHANGED <<attempt, phase, out_path, late>>
      BY <2>3 DEF on_method_call, clientVars
    <3>2. \/ Answer(x, "queued_path") /\ ever' = ever \cup {n}
          \/ Answer(x, "queued_empty") /\ UNCHANGED ever
      BY <2>3 DEF on_method_call, Registers
    <3> QED
      BY <3>1, <3>2 DEF Made, Unmade
  <2>4. ASSUME NEW p \in Procs, no_such_object(p, x)
        PROVE  /\ call[x].state = "sent"
               /\ UNCHANGED <<attempt, phase, out_path, late>>
               /\ Answer(x, "error") /\ Effect("error")
    BY <2>4 DEF no_such_object, clientVars, Made, Unmade
  <2>5. ASSUME NEW p \in Procs, send_reply(p, x)
        PROVE  /\ call[x].state \in Queued
               /\ UNCHANGED <<attempt, phase, out_path, late>>
               /\ \E a \in {"path", "empty"} : Answer(x, a) /\ Effect(a)
    <3>1. /\ call[x].state \in Queued /\ UNCHANGED ever
          /\ UNCHANGED <<attempt, phase, out_path, late>>
      BY <2>5 DEF send_reply, clientVars
    <3>2. CASE call[x].state = "queued_path"
      BY <2>5, <3>1, <3>2 DEF send_reply, Made, Unmade
    <3>3. CASE call[x].state = "queued_empty"
      BY <2>5, <3>1, <3>3 DEF send_reply, Made, Unmade
    <3> QED
      BY <3>1, <3>2, <3>3 DEF Queued
  <2> HIDE DEF Effect
  <2> QED
    BY <2>1, <2>2, <2>3, <2>4, <2>5 DEF Unanswered, Queued, CallStates
<1>2. PICK a \in CallStates : Answer(x, a) /\ Effect(a)
  BY <1>1
<1>3. /\ call' \in [Calls -> [state : CallStates, to : Procs \cup {Null}]]
      /\ call'[x].state = a
      /\ \A y \in Calls \ {x} : call'[y] = call[y]
  BY <1>0, <1>2, AnswerTypes
<1>4. CallTypes'
  BY <1>0, <1>1, <1>3 DEF CallTypes
<1>5. CallsInTurn'
  BY <1>0, <1>1, <1>3, OpenCallsOnly
<1>6. PathMeansRegistered'
  <2>1. CASE a \in Made /\ ever' = ever \cup {n}
    <3>1. PICK m : m = n
      OBVIOUS
    <3>2. ever' = ever \cup {m} /\ m.who = x /\ m.version = LibVersion
      BY <2>1, <3>1
    <3>3. \A r \in ever' : r.who \in Calls /\ r.version = LibVersion
      BY <1>0, <3>2 DEF PathMeansRegistered
    <3>4. ASSUME NEW y \in Calls
          PROVE  /\ call'[y].state \in Made => {r \in ever' : r.who = y} # {}
                 /\ call'[y].state \in Unmade => {r \in ever' : r.who = y} = {}
      <4>1. CASE y = x
        BY <1>3, <2>1, <3>2, <4>1 DEF Made, Unmade
      <4>2. CASE y # x
        <5>1. {r \in ever' : r.who = y} = {r \in ever : r.who = y}
          BY <3>2, <4>2
        <5> QED
          BY <1>0, <1>3, <4>2, <5>1 DEF PathMeansRegistered, Registered
      <4> QED
        BY <4>1, <4>2
    <3> QED
      BY <3>3, <3>4 DEF PathMeansRegistered, Registered
  <2>2. CASE /\ UNCHANGED ever
             /\ a \in Made => call[x].state \in Made
             /\ a \in Unmade => call[x].state \in Unmade
    <3>1. \A y \in Calls :
             /\ call'[y].state \in Made => call[y].state \in Made
             /\ call'[y].state \in Unmade => call[y].state \in Unmade
      BY <1>3, <2>2
    <3> QED
      BY <1>0, <2>2, <3>1 DEF PathMeansRegistered, Registered
  <2> QED
    BY <1>2, <2>1, <2>2
<1> QED
  BY <1>4, <1>5, <1>6 DEF AnswerInv

(* The bus answers the calls of a process that is gone.                    *)
LEMMA DropKeepsAnswers ==
    ASSUME AnswerInv, NEW p \in Procs, bus_drops_name(p)
    PROVE  AnswerInv'
<1>0. CallTypes /\ CallsInTurn /\ PathMeansRegistered
  BY DEF AnswerInv
<1>1. /\ call' = [x \in Calls |->
                     IF call[x].state \in Unanswered /\ call[x].to = p
                     THEN [call[x] EXCEPT !.state = "error"] ELSE call[x]]
      /\ UNCHANGED <<attempt, phase, out_path, ever, late>>
  BY DEF bus_drops_name, clientVars
<1>2. ASSUME NEW x \in Calls
      PROVE  /\ call'[x] \in [state : CallStates, to : Procs \cup {Null}]
             /\ \/ call'[x].state = call[x].state
                \/ /\ call[x].state \in Unanswered
                   /\ call'[x].state = "error"
  <2>1. call[x] \in [state : CallStates, to : Procs \cup {Null}]
    BY <1>0 DEF CallTypes
  <2>2. CASE call[x].state \in Unanswered /\ call[x].to = p
    <3>1. call'[x] = [call[x] EXCEPT !.state = "error"]
      BY <1>1, <2>2
    <3> QED
      BY <2>1, <2>2, <3>1 DEF CallStates
  <2>3. CASE ~(call[x].state \in Unanswered /\ call[x].to = p)
    BY <1>1, <2>1, <2>3
  <2> QED
    BY <2>2, <2>3
<1>3. CallTypes'
  <2>1. call' = [x \in Calls |-> call'[x]]
    BY <1>1
  <2>2. call' \in [Calls -> [state : CallStates, to : Procs \cup {Null}]]
    BY <1>2, <2>1
  <2> QED
    BY <1>0, <1>1, <2>2 DEF CallTypes
<1>4. CallsInTurn'
  BY <1>0, <1>1, <1>2, OpenCallsOnly
<1>5. \A x \in Calls :
         /\ call'[x].state \in Made => call[x].state \in Made
         /\ call'[x].state \in Unmade => call[x].state \in Unmade
  BY <1>2 DEF Made, Unmade
<1>6. PathMeansRegistered'
  BY <1>0, <1>1, <1>5 DEF PathMeansRegistered, Registered
<1> QED
  BY <1>3, <1>4, <1>6 DEF AnswerInv

(* A step of one client: what it may do to the client's own phase, attempt *)
(* and path, for the invariant to hold of the client afterwards.           *)
ClientRight(c) ==
    /\ phase[c] = "idle" => attempt[c] = 0
    /\ phase[c] # "idle" => attempt[c] > 0
    /\ \A k \in 1 .. MaxAttempts :
          k > attempt[c] => call[<<c, k>>].state = "none"
    /\ phase[c] \in {"connecting", "checking"} =>
          call[Current(c)].state = "none"
    /\ phase[c] = "true" =>
          /\ call[Current(c)].state \in {"path", "empty"}
          /\ out_path[c] = call[Current(c)].state
    /\ phase[c] = "false" =>
          \/ call[Current(c)].state \in {"none", "error"}
          \/ Current(c) \in late

LEMMA OtherClientsRight ==
    ASSUME CallTypes, CallsInTurn, NEW c \in Clients, ClientRight(c)',
           \A d \in Clients \ {c} :
              /\ phase'[d] = phase[d] /\ attempt'[d] = attempt[d]
              /\ out_path'[d] = out_path[d]
              /\ \A k \in 1 .. MaxAttempts : call'[<<d, k>>] = call[<<d, k>>],
           late \subseteq late'
    PROVE  CallsInTurn'
<1>1. ASSUME NEW d \in Clients, d # c
      PROVE  ClientRight(d)'
  <2>1. ClientRight(d)
    BY DEF CallsInTurn, ClientRight
  <2>2. phase[d] # "idle" => attempt[d] \in 1 .. MaxAttempts
    BY CurrentIsCall DEF Current, Calls
  <2>3. /\ phase'[d] = phase[d] /\ attempt'[d] = attempt[d]
        /\ out_path'[d] = out_path[d]
        /\ \A k \in 1 .. MaxAttempts : call'[<<d, k>>] = call[<<d, k>>]
    BY <1>1
  <2>4. phase[d] # "idle" => call'[<<d, attempt[d]>>] = call[<<d, attempt[d]>>]
    BY <2>2, <2>3
  <2> QED
    BY <2>1, <2>3, <2>4 DEF ClientRight, Current
<1>2. \A d \in Clients : ClientRight(d)'
  BY <1>1
<1> QED
  BY <1>2 DEF CallsInTurn, ClientRight

(* mux_get_socket_path begins, or goes on to its version check or ends     *)
(* before it.                                                              *)
LEMMA AttemptKeepsAnswers ==
    ASSUME AnswerInv, NEW c \in Clients,
           \/ \E obj \in {"obj", Null} : mux_get_socket_path(c, obj)
           \/ proxy_new_for_bus_sync(c)
    PROVE  AnswerInv'
<1>0. CallTypes /\ CallsInTurn /\ PathMeansRegistered
  BY DEF AnswerInv
<1>1. UNCHANGED <<call, ever, late>>
  BY DEF mux_get_socket_path, proxy_new_for_bus_sync, callVars
<1>2. PathMeansRegistered'
  BY <1>0, <1>1 DEF PathMeansRegistered, Registered
<1>3. /\ attempt \in [Clients -> 0 .. MaxAttempts]
      /\ phase \in [Clients -> {"idle", "connecting", "checking", "called",
                                "true", "false"}]
      /\ out_path \in [Clients -> {Null, "path", "empty"}]
  BY <1>0 DEF CallTypes
<1>4. CASE \E obj \in {"obj", Null} : mux_get_socket_path(c, obj)
  <2>1. PICK to \in {"false", "connecting"} :
           /\ attempt[c] < MaxAttempts
           /\ attempt' = [attempt EXCEPT ![c] = @ + 1]
           /\ out_path' = [out_path EXCEPT ![c] = Null]
           /\ phase' = [phase EXCEPT ![c] = to]
    BY <1>4 DEF mux_get_socket_path, Move
  <2>2. attempt[c] + 1 \in 1 .. MaxAttempts
    BY <1>3, <2>1, RegistrationAssumption
  <2>3. CallTypes'
    BY <1>0, <1>1, <2>1, <2>2 DEF CallTypes
  <2>4. call[<<c, attempt[c] + 1>>].state = "none"
        /\ \A k \in 1 .. MaxAttempts :
              k > attempt[c] + 1 => call[<<c, k>>].state = "none"
    BY <1>0, <1>3, <2>2 DEF CallsInTurn
  <2>5. attempt'[c] = attempt[c] + 1 /\ phase'[c] = to
    BY <1>3, <2>1
  <2>6. ClientRight(c)'
    BY <1>1, <2>2, <2>4, <2>5 DEF ClientRight, Current
  <2>7. CallsInTurn'
    BY <1>0, <1>1, <1>3, <2>1, <2>6, OtherClientsRight
  <2> QED
    BY <1>2, <2>3, <2>7 DEF AnswerInv
<1>5. CASE proxy_new_for_bus_sync(c)
  <2>1. PICK to \in {"false", "checking"} :
           /\ phase[c] = "connecting" /\ phase' = [phase EXCEPT ![c] = to]
           /\ UNCHANGED <<attempt, out_path>>
    BY <1>5 DEF proxy_new_for_bus_sync, Move
  <2>2. CallTypes'
    BY <1>0, <1>1, <2>1 DEF CallTypes
  <2>3. ClientRight(c)
    BY <1>0 DEF CallsInTurn, ClientRight
  <2>4. phase'[c] = to
    BY <1>3, <2>1
  <2>5. ClientRight(c)'
    BY <1>1, <2>1, <2>3, <2>4 DEF ClientRight, Current
  <2>6. CallsInTurn'
    BY <1>0, <1>1, <1>3, <2>1, <2>5, OtherClientsRight
  <2> QED
    BY <1>2, <2>2, <2>6 DEF AnswerInv
<1> QED
  BY <1>4, <1>5

(* The call of Register, its return and its timeout.                       *)
LEMMA RegisterKeepsAnswers ==
    ASSUME AnswerInv, NEW c \in Clients,
           \/ call_register_sync(c) \/ register_returns(c)
           \/ register_timeout(c),
           owners \in Seq(Procs)
    PROVE  AnswerInv'
<1>0. CallTypes /\ CallsInTurn /\ PathMeansRegistered
  BY DEF AnswerInv
<1>1. /\ phase \in [Clients -> {"idle", "connecting", "checking", "called",
                                "true", "false"}]
      /\ out_path \in [Clients -> {Null, "path", "empty"}]
      /\ call \in [Calls -> [state : CallStates, to : Procs \cup {Null}]]
  BY <1>0 DEF CallTypes
<1>2. ClientRight(c)
  BY <1>0 DEF CallsInTurn, ClientRight
<1>3. phase[c] \in {"checking", "called"} /\ Current(c) \in Calls
      /\ attempt[c] \in 1 .. MaxAttempts
  <2>1. phase[c] \in {"checking", "called"}
    BY DEF call_register_sync, register_returns, register_timeout
  <2>2. Current(c) \in Calls
    BY <1>0, <2>1, CurrentIsCall
  <2> QED
    BY <2>1, <2>2 DEF Current, Calls
<1>4. PICK x \in Calls : x = Current(c) /\ x = <<c, attempt[c]>>
  BY <1>3 DEF Current
<1>5. CASE call_register_sync(c)
  <2>1. /\ phase[c] = "checking"
        /\ UNCHANGED <<attempt, out_path, ever, late>>
    BY <1>5 DEF call_register_sync
  <2>2. call[x].state = "none"
    BY <1>2, <1>4, <2>1 DEF ClientRight
  <2>3. CASE phase' = [phase EXCEPT ![c] = "false"] /\ UNCHANGED call
    <3>1. phase'[c] = "false"
      BY <1>1, <2>3
    <3>2. ClientRight(c)'
      BY <1>2, <1>4, <2>1, <2>2, <2>3, <3>1 DEF ClientRight, Current
    <3>3. CallsInTurn'
      BY <1>0, <1>1, <2>1, <2>3, <3>2, OtherClientsRight
    <3>4. CallTypes' /\ PathMeansRegistered'
      BY <1>0, <2>1, <2>3 DEF CallTypes, PathMeansRegistered, Registered
    <3> QED
      BY <3>3, <3>4 DEF AnswerInv
  <2>4. ASSUME NEW n, phase' = [phase EXCEPT ![c] = "called"],
               call' = [call EXCEPT ![x] = n],
               n \in [state : {"sent", "error"}, to : Procs \cup {Null}]
        PROVE  AnswerInv'
    <3>1. /\ phase'[c] = "called" /\ call'[x] = n
          /\ n.state \in {"sent", "error"}
          /\ \A y \in Calls \ {x} : call'[y] = call[y]
      BY <1>1, <2>4
    <3>2. CallTypes'
      BY <1>0, <2>1, <2>4 DEF CallTypes, CallStates, Unanswered
    <3>3. \A k \in 1 .. MaxAttempts : <<c, k>> \in Calls
      BY DEF Calls
    <3>4. ClientRight(c)'
      BY <1>2, <1>3, <1>4, <2>1, <3>1, <3>3 DEF ClientRight, Current
    <3>5. \A d \in Clients \ {c} :
             \A k \in 1 .. MaxAttempts : call'[<<d, k>>] = call[<<d, k>>]
      BY <1>4, <3>1 DEF Calls
    <3>6. CallsInTurn'
      BY <1>0, <1>1, <2>1, <2>4, <3>4, <3>5, OtherClientsRight
    <3>7. \A y \in Calls :
             /\ call'[y].state \in Made => call[y].state \in Made
             /\ call'[y].state \in Unmade => call[y].state \in Unmade
      BY <2>2, <3>1 DEF Made, Unmade
    <3>8. PathMeansRegistered'
      BY <1>0, <2>1, <3>7 DEF PathMeansRegistered, Registered
    <3> QED
      BY <3>2, <3>6, <3>8 DEF AnswerInv
  <2>5. Callee \in Procs \cup {Null}
    <3>1. owners # <<>> => Head(owners) \in Procs
      BY HeadTailProperties
    <3> QED
      BY <3>1 DEF Callee
  <2>6. CASE /\ phase' = [phase EXCEPT ![c] = "called"]
             /\ call' = [call EXCEPT
                   ![x] = [state |-> IF Reachable THEN "sent" ELSE "error",
                           to |-> Callee]]
    <3>1. PICK n : n = [state |-> IF Reachable THEN "sent" ELSE "error",
                        to |-> Callee]
      OBVIOUS
    <3>2. n \in [state : {"sent", "error"}, to : Procs \cup {Null}]
      BY <2>5, <3>1
    <3> QED
      BY <2>4, <2>6, <3>1, <3>2
  <2> QED
    BY <1>4, <1>5, <2>3, <2>6 DEF call_register_sync, Move
<1>6. CASE register_returns(c)
  <2>1. UNCHANGED <<attempt, call, ever, late>> /\ phase[c] = "called"
    BY <1>6 DEF register_returns, callVars
  <2>2. PathMeansRegistered'
    BY <1>0, <2>1 DEF PathMeansRegistered, Registered
  <2>3. \/ /\ call[x].state = "error" /\ UNCHANGED out_path
           /\ phase' = [phase EXCEPT ![c] = "false"]
        \/ /\ call[x].state \in {"path", "empty"}
           /\ out_path' = [out_path EXCEPT ![c] = call[x].state]
           /\ phase' = [phase EXCEPT ![c] = "true"]
    BY <1>4, <1>6 DEF register_returns, Move
  <2>4. CallTypes'
    BY <1>0, <1>1, <2>1, <2>3 DEF CallTypes
  <2>5. \/ phase'[c] = "false" /\ call[x].state = "error"
        \/ /\ phase'[c] = "true" /\ call[x].state \in {"path", "empty"}
           /\ out_path'[c] = call[x].state
    BY <1>1, <2>3
  <2>6. ClientRight(c)'
    BY <1>2, <1>4, <2>1, <2>5 DEF ClientRight, Current
  <2>7. CallsInTurn'
    BY <1>0, <1>1, <2>1, <2>3, <2>6, OtherClientsRight
  <2> QED
    BY <2>2, <2>4, <2>7 DEF AnswerInv
<1>7. CASE register_timeout(c)
  <2>1. /\ UNCHANGED <<attempt, out_path, call, ever>> /\ phase[c] = "called"
        /\ late' = late \cup {x} /\ phase' = [phase EXCEPT ![c] = "false"]
    BY <1>4, <1>7 DEF register_timeout, Move
  <2>2. PathMeansRegistered' /\ CallTypes'
    BY <1>0, <2>1 DEF PathMeansRegistered, Registered, CallTypes
  <2>3. phase'[c] = "false" /\ x \in late'
    BY <1>1, <2>1
  <2>4. ClientRight(c)'
    BY <1>2, <1>4, <2>1, <2>3 DEF ClientRight, Current
  <2>5. CallsInTurn'
    BY <1>0, <1>1, <2>1, <2>4, OtherClientsRight
  <2> QED
    BY <2>2, <2>5 DEF AnswerInv
<1> QED
  BY <1>5, <1>6, <1>7

(* The invariant behind the answers holds.                                 *)
LEMMA AnswerAlways == Spec => []AnswerInv
<1>1. Init => AnswerInv
  <2> SUFFICES ASSUME Init PROVE AnswerInv
    OBVIOUS
  <2>1. /\ phase = [c \in Clients |-> "idle"]
        /\ attempt = [c \in Clients |-> 0]
        /\ out_path = [c \in Clients |-> Null] /\ ever = {}
        /\ call = [x \in Calls |-> [state |-> "none", to |-> Null]]
    BY DEF Init
  <2>2. CallTypes
    BY <2>1, RegistrationAssumption DEF CallTypes, CallStates
  <2>3. \A c \in Clients, k \in 1 .. MaxAttempts : <<c, k>> \in Calls
    BY DEF Calls
  <2>4. CallsInTurn
    BY <2>1, <2>3 DEF CallsInTurn
  <2>5. PathMeansRegistered
    BY <2>1 DEF PathMeansRegistered, Registered, Made, Unmade
  <2> QED
    BY <2>2, <2>4, <2>5 DEF AnswerInv
<1>2. AnswerInv /\ ProcessInv /\ [Next]_vars => AnswerInv'
  <2> SUFFICES ASSUME AnswerInv, ProcessInv, [Next]_vars PROVE AnswerInv'
    OBVIOUS
  <2>1. owners \in Seq(Procs)
    BY DEF ProcessInv, ProcessTypes
  <2>2. CASE UNCHANGED <<attempt, phase, out_path, call, ever, late>>
    BY <2>2 DEF AnswerInv, CallTypes, CallsInTurn, PathMeansRegistered,
       Registered, Current
  <2>3. CASE Service \/ InterfaceCalls \/ (\E c \in Clients : Deliver(c))
             \/ UNCHANGED vars
    <3>1. UNCHANGED <<attempt, phase, out_path, call, ever, late>>
      BY <2>3 DEF Service, InterfaceCalls, Deliver, vars, clientVars, callVars
    <3> QED
      BY <2>2, <3>1
  <2>4. ASSUME NEW p \in Procs,
               \/ process_options(p)
               \/ \E port \in StartPorts : main(p, port)
               \/ on_bus_acquired(p) \/ on_name_acquired(p)
               \/ on_name_lost(p) \/ worker_destroyed(p) \/ process_dies(p)
               \/ \E t \in Handlers : handle_SIGINT(p, t)
        PROVE  AnswerInv'
    <3>1. UNCHANGED <<attempt, phase, out_path, call, ever, late>>
      BY <2>4 DEF process_options, main, on_bus_acquired, on_name_acquired,
         on_name_lost, handle_SIGINT, worker_destroyed, process_dies,
         clientVars, callVars
    <3> QED
      BY <2>2, <3>1
  <2> QED
    BY <2>1, <2>3, <2>4, AnswersKeepAnswers, DropKeepsAnswers,
       AttemptKeepsAnswers, RegisterKeepsAnswers
    DEF Next, ServerNext, ClientSteps
<1> QED
  BY <1>1, <1>2, ProcessAlways, PTL DEF Spec

(* The registrations that a process holds are those of calls it registered *)
(* and answers, or has answered, with a path; and it holds none when it is *)
(* not running.                                                            *)
HeldInv ==
    /\ vms \in [Procs -> SUBSET Calls]
    /\ \A p \in Procs : \A x \in vms[p] :
          /\ ppc[p] \in Running
          /\ call[x].to = p /\ call[x].state \in Made

(* A step that answers a call keeps that.                                  *)
LEMMA AnswersKeepHeld ==
    ASSUME HeldInv, CallTypes, NEW x \in Calls,
           \/ skeleton_handle_method_call(x) \/ complete_register(x)
           \/ \E p \in Procs : \/ on_method_call(p, x) \/ no_such_object(p, x)
                               \/ send_reply(p, x)
    PROVE  HeldInv'
<1>1. UNCHANGED ppc
  BY DEF skeleton_handle_method_call, complete_register, on_method_call,
     no_such_object, send_reply, processVars
<1>2. call[x] \in [state : CallStates, to : Procs \cup {Null}]
  BY DEF CallTypes
<1>3. ASSUME NEW a, Answer(x, a)
      PROVE  /\ call'[x].state = a /\ call'[x].to = call[x].to
             /\ \A y \in Calls \ {x} : call'[y] = call[y]
  <2>1. call' = [call EXCEPT ![x].state = a] /\ x \in DOMAIN call
    BY <1>3 DEF Answer, CallTypes
  <2> QED
    BY <1>2, <2>1 DEF CallTypes
<1>4. ASSUME NEW a, Answer(x, a), UNCHANGED vms,
             call[x].state \in Made => a \in Made
      PROVE  HeldInv'
  BY <1>1, <1>3, <1>4 DEF HeldInv
<1>5. CASE skeleton_handle_method_call(x)
  <2>1. PICK a : Answer(x, a) /\ call[x].state \notin Made /\ UNCHANGED vms
    BY <1>5 DEF skeleton_handle_method_call, Made
  <2> QED
    BY <1>4, <2>1
<1>6. CASE complete_register(x)
  <2>1. PICK a : Answer(x, a) /\ call[x].state \notin Made /\ UNCHANGED vms
    BY <1>6 DEF complete_register, Made
  <2> QED
    BY <1>4, <2>1
<1>7. ASSUME NEW p \in Procs, no_such_object(p, x) PROVE HeldInv'
  <2>1. Answer(x, "error") /\ call[x].state \notin Made /\ UNCHANGED vms
    BY <1>7 DEF no_such_object, Made
  <2> QED
    BY <1>4, <2>1
<1>8. ASSUME NEW p \in Procs, send_reply(p, x) PROVE HeldInv'
  <2>1. PICK a : /\ Answer(x, a) /\ UNCHANGED vms
                 /\ call[x].state = "queued_path" => a = "path"
                 /\ call[x].state \in Queued
    BY <1>8 DEF send_reply
  <2>2. call[x].state \in Made => a \in Made
    BY <2>1 DEF Queued, Made
  <2> QED
    BY <1>4, <2>1, <2>2
<1>9. ASSUME NEW p \in Procs, on_method_call(p, x) PROVE HeldInv'
  <2>1. /\ ppc[p] \in Running
        /\ call[x] = [state |-> "sent", to |-> p]
    BY <1>9 DEF on_method_call, Dispatching
  <2>2. CASE Answer(x, "queued_empty") /\ UNCHANGED vms
    BY <1>4, <2>1, <2>2 DEF Made
  <2>3. CASE Answer(x, "queued_path") /\ Registers(p, x)
    <3>1. /\ call'[x].state = "queued_path" /\ call'[x].to = p
          /\ \A y \in Calls \ {x} : call'[y] = call[y]
      BY <1>3, <2>1, <2>3
    <3>2. vms' = [vms EXCEPT ![p] = @ \cup {x}]
      BY <2>3 DEF Registers
    <3>3. vms \in [Procs -> SUBSET Calls]
      BY DEF HeldInv
    <3>4. \A q \in Procs : \A y \in vms'[q] :
             y \in Calls /\ (y \in vms[q] \/ (q = p /\ y = x))
      BY <3>2, <3>3
    <3>5. vms' \in [Procs -> SUBSET Calls]
      BY <3>2, <3>3
    <3>6. ASSUME NEW q \in Procs, NEW y \in vms'[q]
          PROVE  /\ ppc'[q] \in Running
                 /\ call'[y].to = q /\ call'[y].state \in Made
      <4>1. CASE y = x /\ q = p
        BY <1>1, <2>1, <3>1, <4>1 DEF Made
      <4>2. CASE y \in vms[q]
        <5>1. call[y].state \in Made /\ call[y].to = q /\ ppc[q] \in Running
          BY <4>2 DEF HeldInv
        <5>2. y # x
          BY <2>1, <5>1 DEF Made
        <5> QED
          BY <1>1, <3>1, <3>4, <5>1, <5>2
      <4> QED
        BY <3>4, <4>1, <4>2
    <3> QED
      BY <3>5, <3>6 DEF HeldInv
  <2> QED
    BY <1>9, <2>2, <2>3 DEF on_method_call
<1> QED
  BY <1>5, <1>6, <1>7, <1>8, <1>9

(* A process dies with what it holds; and what the bus answers for it      *)
(* afterwards, nobody holds.                                               *)
LEMMA DeathKeepsHeld ==
    ASSUME HeldInv, CallTypes, ProcessTypes, NEW p \in Procs,
           process_dies(p) \/ bus_drops_name(p)
    PROVE  HeldInv'
<1>1. vms \in [Procs -> SUBSET Calls] /\ ppc \in [Procs -> Positions]
  BY DEF HeldInv, ProcessTypes
<1>2. CASE process_dies(p)
  <2>1. /\ ppc' = [ppc EXCEPT ![p] = "dead"]
        /\ vms' = [vms EXCEPT ![p] = {}] /\ UNCHANGED call
    BY <1>2 DEF process_dies
  <2>2. /\ vms'[p] = {} /\ vms' \in [Procs -> SUBSET Calls]
        /\ \A q \in Procs \ {p} : vms'[q] = vms[q] /\ ppc'[q] = ppc[q]
    BY <1>1, <2>1
  <2> QED
    BY <2>1, <2>2 DEF HeldInv
<1>3. CASE bus_drops_name(p)
  <2>1. /\ ppc[p] = "dead" /\ ppc' = [ppc EXCEPT ![p] = "down"]
        /\ UNCHANGED vms
        /\ call' = [x \in Calls |->
                       IF call[x].state \in Unanswered /\ call[x].to = p
                       THEN [call[x] EXCEPT !.state = "error"] ELSE call[x]]
    BY <1>3 DEF bus_drops_name
  <2>2. \A x \in Calls : call[x].to # p => call'[x] = call[x]
    BY <2>1
  <2>3. \A q \in Procs \ {p} : ppc'[q] = ppc[q]
    BY <1>1, <2>1
  <2>4. \A q \in Procs : \A x \in vms[q] : q # p /\ x \in Calls
    BY <1>1, <2>1 DEF HeldInv, Running
  <2> QED
    BY <2>1, <2>2, <2>3, <2>4 DEF HeldInv
<1> QED
  BY <1>2, <1>3

LEMMA HeldAlways == Spec => []HeldInv
<1>1. Init => HeldInv
  BY DEF Init, HeldInv
<1>2. HeldInv /\ AnswerInv /\ ProcessInv /\ [Next]_vars => HeldInv'
  <2> SUFFICES ASSUME HeldInv, AnswerInv, ProcessInv, [Next]_vars
               PROVE  HeldInv'
    OBVIOUS
  <2>0. CallTypes /\ CallsInTurn /\ ProcessTypes
    BY DEF AnswerInv, ProcessInv
  <2>1. ppc \in [Procs -> Positions]
    BY <2>0 DEF ProcessTypes
  <2>2. ASSUME UNCHANGED <<vms, call>>,
               \A p \in Procs : ppc[p] \in Running => ppc'[p] \in Running
        PROVE  HeldInv'
    BY <2>2 DEF HeldInv
  <2>3. ASSUME NEW p \in Procs,
               \/ process_options(p)
               \/ \E port \in StartPorts : main(p, port)
               \/ on_bus_acquired(p) \/ on_name_acquired(p)
               \/ on_name_lost(p) \/ worker_destroyed(p)
               \/ \E t \in Handlers : handle_SIGINT(p, t)
        PROVE  HeldInv'
    <3>1. UNCHANGED <<vms, call>>
      BY <2>3 DEF process_options, main, on_bus_acquired, on_name_acquired,
         on_name_lost, handle_SIGINT, worker_destroyed, callVars
    <3>2. \/ UNCHANGED ppc
          \/ \E to : /\ ppc' = [ppc EXCEPT ![p] = to]
                     /\ to \in Running \/ ppc[p] \in {"down", "starting"}
      BY <2>3 DEF process_options, main, on_bus_acquired, on_name_acquired,
         on_name_lost, handle_SIGINT, worker_destroyed, Running
    <3>3. \A q \in Procs : ppc[q] \in Running => ppc'[q] \in Running
      BY <2>1, <3>2 DEF Running
    <3> QED
      BY <2>2, <3>1, <3>3
  <2>4. ASSUME \/ Service \/ InterfaceCalls \/ UNCHANGED vars
               \/ \E c \in Clients :
                     \/ \E obj \in {"obj", Null} : mux_get_socket_path(c, obj)
                     \/ proxy_new_for_bus_sync(c) \/ register_returns(c)
                     \/ register_timeout(c) \/ Deliver(c)
        PROVE  HeldInv'
    <3>1. UNCHANGED <<vms, call, ppc>>
      BY <2>4 DEF Service, InterfaceCalls, mux_get_socket_path,
         proxy_new_for_bus_sync, register_returns, register_timeout, Deliver,
         vars, callVars, processVars
    <3> QED
      BY <2>2, <3>1
  <2>5. ASSUME NEW c \in Clients, call_register_sync(c) PROVE HeldInv'
    <3>1. /\ phase[c] = "checking" /\ UNCHANGED <<vms, ppc>>
          /\ UNCHANGED call \/ \E n : call' = [call EXCEPT ![Current(c)] = n]
      BY <2>5 DEF call_register_sync, processVars
    <3>2. call[Current(c)].state = "none"
      BY <2>0, <3>1 DEF CallsInTurn
    <3>3. \A y \in Calls : y # Current(c) => call'[y] = call[y]
      BY <2>0, <3>1 DEF CallTypes
    <3>4. \A q \in Procs : \A y \in vms[q] : y \in Calls /\ y # Current(c)
      BY <3>2 DEF HeldInv, Made
    <3> QED
      BY <3>1, <3>3, <3>4 DEF HeldInv
  <2> QED
    BY <2>0, <2>3, <2>4, <2>5, AnswersKeepHeld, DeathKeepsHeld
    DEF Next, ServerNext, ClientSteps
<1> QED
  BY <1>1, <1>2, ProcessAlways, AnswerAlways, PTL DEF Spec

(* A hypervisor that mux_get_socket_path has returned to is told the truth *)
(* about its call.  Told of success, it has a path exactly if a server of  *)
(* its own version registered this very call.  Told of failure, and not    *)
(* having given up by itself, no server holds a listener for the call: not *)
(* even if the server registered it and died before its reply left.  For   *)
(* any number of processes that come and go, of attempts and of calls      *)
(* answered late.                                                          *)
THEOREM AnswersExact == Spec => []AnswerExact
<1>1. AnswerInv /\ HeldInv => AnswerExact
  <2> SUFFICES ASSUME AnswerInv, HeldInv, NEW c \in Clients
               PROVE  /\ \A r \in ever : r.version = LibVersion
                      /\ phase[c] = "true" =>
                            (Registered(Current(c)) # {}
                                <=> out_path[c] = "path")
                      /\ phase[c] = "false" =>
                            \/ \A p \in Procs : Current(c) \notin vms[p]
                            \/ Current(c) \in late
    BY DEF AnswerExact, Registered
  <2>1. CallTypes /\ CallsInTurn /\ PathMeansRegistered
    BY DEF AnswerInv
  <2>2. phase[c] \in {"true", "false"} => Current(c) \in Calls
    BY <2>1, CurrentIsCall
  <2>3. phase[c] = "true" =>
           /\ call[Current(c)].state \in {"path", "empty"}
           /\ out_path[c] = call[Current(c)].state
    BY <2>1 DEF CallsInTurn
  <2>4. phase[c] = "true" =>
           (Registered(Current(c)) # {} <=> out_path[c] = "path")
    BY <2>1, <2>2, <2>3 DEF PathMeansRegistered, Made, Unmade
  <2>5. phase[c] = "false" =>
           \/ call[Current(c)].state \in {"none", "error"}
           \/ Current(c) \in late
    BY <2>1 DEF CallsInTurn
  <2>6. \A p \in Procs : Current(c) \in vms[p] =>
                             call[Current(c)].state \in Made
    BY DEF HeldInv
  <2>7. \A r \in ever : r.version = LibVersion
    BY <2>1 DEF PathMeansRegistered
  <2> QED
    BY <2>4, <2>5, <2>6, <2>7 DEF Made
<1> QED
  BY <1>1, AnswerAlways, HeldAlways, PTL
-----------------------------------------------------------------------------
(* The types that no invariant above needs.                                *)
RestTypes ==
    /\ service \in {"server", "skeleton", "interfaces"}
    /\ starts \in 0 .. MaxStarts
    /\ late \subseteq Calls

(* What a step can do to them: one process starts, or one client gives up. *)
LEMMA RestSteps ==
    ASSUME AnswerInv, [Next]_vars
    PROVE  /\ service' = service
           /\ \/ starts' = starts
              \/ starts < MaxStarts /\ starts' = starts + 1
           /\ late' = late \/ \E x \in Calls : late' = late \cup {x}
<1> DEFINE Late == late' = late \/ \E x \in Calls : late' = late \cup {x}
           Start == \/ starts' = starts
                    \/ starts < MaxStarts /\ starts' = starts + 1
<1>1. ASSUME \/ Service \/ InterfaceCalls \/ UNCHANGED vars
             \/ \E c \in Clients : Deliver(c)
      PROVE  service' = service /\ Start /\ Late
  <2>1. UNCHANGED <<service, starts, late>>
    BY <1>1 DEF Service, InterfaceCalls, Deliver, vars, serviceVars,
       processVars, callVars
  <2> QED
    BY <2>1
<1>2. ASSUME NEW p \in Procs,
             \/ process_options(p)
             \/ \E port \in StartPorts : main(p, port)
             \/ on_bus_acquired(p) \/ on_name_acquired(p) \/ on_name_lost(p)
      PROVE  service' = service /\ Start /\ Late
  <2>1. service' = service /\ late' = late
    BY <1>2 DEF process_options, main, on_bus_acquired, on_name_acquired,
       on_name_lost, serviceVars, callVars
  <2>2. Start
    BY <1>2 DEF process_options, main, on_bus_acquired, on_name_acquired,
       on_name_lost
  <2> QED
    BY <2>1, <2>2
<1>3. ASSUME NEW p \in Procs,
             \/ \E t \in Handlers : handle_SIGINT(p, t)
             \/ worker_destroyed(p) \/ process_dies(p) \/ bus_drops_name(p)
      PROVE  service' = service /\ Start /\ Late
  <2>1. service' = service /\ starts' = starts /\ late' = late
    BY <1>3 DEF handle_SIGINT, worker_destroyed, process_dies, bus_drops_name,
       serviceVars, callVars
  <2> QED
    BY <2>1
<1>4. ASSUME NEW x \in Calls,
             \/ skeleton_handle_method_call(x) \/ complete_register(x)
             \/ \E p \in Procs :
                   \/ on_method_call(p, x) \/ no_such_object(p, x)
                   \/ send_reply(p, x)
      PROVE  service' = service /\ Start /\ Late
  <2>1. service' = service /\ starts' = starts /\ late' = late
    BY <1>4 DEF skeleton_handle_method_call, complete_register,
       on_method_call, no_such_object, send_reply, serviceVars, processVars
  <2> QED
    BY <2>1
<1>5. ASSUME NEW c \in Clients,
             \/ \E obj \in {"obj", Null} : mux_get_socket_path(c, obj)
             \/ ClientSteps(c)
      PROVE  service' = service /\ Start /\ Late
  <2>1. service' = service /\ starts' = starts
    BY <1>5 DEF mux_get_socket_path, ClientSteps, proxy_new_for_bus_sync,
       call_register_sync, register_returns, register_timeout, serviceVars,
       processVars
  <2>2. CASE register_timeout(c)
    <3>1. phase[c] = "called" /\ late' = late \cup {Current(c)}
      BY <2>2 DEF register_timeout
    <3>2. Current(c) \in Calls
      BY <3>1, CurrentIsCall DEF AnswerInv
    <3> QED
      BY <2>1, <3>1, <3>2
  <2>3. CASE ~register_timeout(c)
    <3>1. late' = late
      BY <1>5, <2>3 DEF mux_get_socket_path, ClientSteps, callVars,
         proxy_new_for_bus_sync, call_register_sync, register_returns
    <3> QED
      BY <2>1, <3>1
  <2> QED
    BY <2>2, <2>3
<1>6. service' = service /\ Start /\ Late
  <2> HIDE DEF Start, Late
  <2> QED
    BY <1>1, <1>2, <1>3, <1>4, <1>5 DEF Next, ServerNext
<1> QED
  BY <1>6

(* The variables of the whole registration system keep their types.  The   *)
(* content is in the bounded ones: a GSource of the skeleton never needs a *)
(* number that is taken, the calls on the bus and the signals stay within  *)
(* their bounds, the queue for the name holds processes only, and what a   *)
(* process holds and what was answered late are calls really made.         *)
THEOREM RegistrationTypes == Spec => []TypeOK
<1>1. Init => RestTypes
  BY RegistrationAssumption DEF Init, RestTypes
<1>2. RestTypes /\ AnswerInv /\ [Next]_vars => RestTypes'
  <2> SUFFICES ASSUME RestTypes, AnswerInv, [Next]_vars PROVE RestTypes'
    OBVIOUS
  <2>1. starts' \in 0 .. MaxStarts
    BY RestSteps, RegistrationAssumption DEF RestTypes
  <2>2. late' \subseteq Calls
    BY RestSteps DEF RestTypes
  <2> QED
    BY <2>1, <2>2, RestSteps DEF RestTypes
<1>3. BindingTypeOK /\ CallsTypeOK /\ ProcessInv /\ AnswerInv /\ HeldInv
          /\ RestTypes => TypeOK
  BY DEF TypeOK, ProcessInv, ProcessTypes, Positions, AnswerInv, CallTypes,
     CallStates, HeldInv, RestTypes
<1> QED
  BY <1>1, <1>2, <1>3, BindingTyped, CallsTyped, ProcessAlways, AnswerAlways,
     HeldAlways, PTL DEF Spec
=============================================================================
