------------------------ MODULE SignalReceiverProofs ------------------------
(***************************************************************************)
(* What the kernel's signalling objects keep true, for any number of       *)
(* threads, contexts and receivers.                                        *)
(*                                                                         *)
(* A kernel call is a composition of functions of the kernel state, so the *)
(* invariant is stated of a kernel state (Sound) and not of the variables: *)
(* that lets the lemmas follow a call from function to function, through   *)
(* the states in the middle of a call, where it holds but for the context  *)
(* or the thread that the call works on (SoundBut, OnlyThread).            *)
(* Sound together with "no handler waits where there is something to       *)
(* deliver" is inductive whatever core cancels or destructs; that every    *)
(* killer is woken (KillersWoken) needs a core that lets it wait.          *)
(***************************************************************************)
EXTENDS SignalReceiver, KernelListProofs

---------------------------------------------------------------------------
(***************************************************************************)
(* The invariant of kernel states                                          *)
(***************************************************************************)

\* Kernel states as the kernel calls pass them on
KernelState ==
  [ thread   : [Thread -> ThreadObject],
    context  : [Context -> ContextObject],
    handlers : [Receiver -> Seq(Thread)],
    deliver  : [Receiver -> Seq(Context)],
    panic    : BOOLEAN,
    handles  : [Thread -> Context \cup {None}],
    unacked  : SUBSET Context,
    owed     : [Context -> Int],
    event    : SUBSET ({"delivered", "acked", "killed", "cancelled"} \X (Context \cup Thread)) ]

\* A thread refers to a receiver exactly while it waits for a signal, and it
\* is queued at that receiver and nowhere else.
HandlersInQueue(k) ==
  /\ \A t \in Thread : k.thread[t].state = "AWAITS_SIGNAL" <=> k.thread[t].receiver # None
  /\ \A r \in Receiver : Distinct(k.handlers[r])
  /\ \A r \in Receiver, t \in Thread : t \in Elems(k.handlers[r]) <=> k.thread[t].receiver = r

\* A context is queued at its receiver exactly if it has submits and no
\* delivery of it is outstanding.
ContextsInQueue(k) ==
  /\ \A r \in Receiver : Distinct(k.deliver[r])
  /\ \A r \in Receiver, c \in Context :
       c \in Elems(k.deliver[r]) <=>
         receiver[c] = r /\ k.context[c].submits > 0 /\ k.context[c].ack

\* The members of a context fit together and to the history: a context without
\* object is blank, the counter is what is owed, a delivery that userland
\* handles keeps the context blocked, and without a kill a blocked context has
\* such a delivery.
ContextsSound(k) ==
  \A c \in Context :
    /\ ~k.context[c].exists => k.context[c].submits = 0 /\ k.context[c].killer = None
    /\ k.context[c].submits = k.owed[c]
    /\ c \in k.unacked => k.context[c].exists /\ ~k.context[c].ack
    /\ k.context[c].exists /\ ~k.context[c].ack /\ ~k.context[c].killed => c \in k.unacked

\* A context that refers to a killer is killed, and the killer waits for it.
KillersKnown(k) ==
  \A c \in Context : k.context[c].killer # None =>
    /\ k.context[c].killed
    /\ k.thread[k.context[c].killer].state = "AWAITS_SIGNAL_CONTEXT_KILL"
    /\ k.thread[k.context[c].killer].kills = c

\* Conversely, a thread refers to a context only while it waits for its kill,
\* and that context refers to the thread and has a delivery that is to be
\* acknowledged.
KillersWoken(k) ==
  \A t \in Thread :
    IF k.thread[t].state = "AWAITS_SIGNAL_CONTEXT_KILL"
    THEN /\ k.thread[t].kills \in Context
         /\ k.context[k.thread[t].kills].killer = t
         /\ k.thread[t].kills \in k.unacked
    ELSE k.thread[t].kills = None

\* No thread waits at a receiver that has something to deliver.
Served(k, r) == k.deliver[r] = <<>> \/ k.handlers[r] = <<>>

\* What every kernel call may rely on, and what each step of it preserves
Sound(k) ==
  /\ k \in KernelState
  /\ ~k.panic
  /\ HandlersInQueue(k)
  /\ ContextsInQueue(k)
  /\ ContextsSound(k)
  /\ KillersKnown(k)

---------------------------------------------------------------------------
(***************************************************************************)
(* Signal_receiver::_listen and _deliverable                               *)
(***************************************************************************)

\* What _listen may change: the handlers hs and the contexts cs that it pairs.
ListenChanges(k, m, r, hs, cs) ==
  /\ \A t \in Thread \ hs : m.thread[t] = k.thread[t]
  /\ \A t \in hs : /\ m.thread[t].state = "ACTIVE" /\ m.thread[t].receiver = None
                   /\ m.thread[t].kills = k.thread[t].kills
  /\ \A c \in Context \ cs : m.context[c] = k.context[c] /\ m.owed[c] = k.owed[c]
  /\ \A c \in cs : /\ m.context[c].submits = 0 /\ m.context[c].ack = FALSE
                   /\ m.context[c].exists = k.context[c].exists
                   /\ m.context[c].killed = k.context[c].killed
                   /\ m.context[c].killer = k.context[c].killer
                   /\ m.owed[c] = k.owed[c] - k.context[c].submits
  /\ m.unacked = k.unacked \cup cs
  /\ m.event = k.event \cup { <<"delivered", c>> : c \in cs }
  /\ m.panic = k.panic
  /\ DOMAIN m.deliver = Receiver /\ DOMAIN m.handlers = Receiver
  /\ \A q \in Receiver \ {r} : m.deliver[q] = k.deliver[q] /\ m.handlers[q] = k.handlers[q]
  /\ m.deliver[r] \in Seq(Context) /\ Distinct(m.deliver[r])
  /\ Elems(m.deliver[r]) = Elems(k.deliver[r]) \ cs
  /\ m.handlers[r] \in Seq(Thread) /\ Distinct(m.handlers[r])
  /\ Elems(m.handlers[r]) = Elems(k.handlers[r]) \ hs

\* _listen pairs contexts that are queued with handlers that are queued, until
\* one of the queues is empty; none of its assertions fails.
LEMMA ListenPairs ==
  ASSUME NEW k, Sound(k), NEW r \in Receiver
  PROVE  /\ \E hs \in SUBSET Elems(k.handlers[r]), cs \in SUBSET Elems(k.deliver[r]) :
              ListenChanges(k, Listen(k, r), r, hs, cs)
         /\ Served(Listen(k, r), r)
         /\ Listen(k, r) \in KernelState
<1> DEFINE n  == Minimum(Len(k.deliver[r]), Len(k.handlers[r]))
           cs == FirstItems(k.deliver[r], n)
           hs == FirstItems(k.handlers[r], n)
           d  == Drop(k.deliver[r], n)
           w  == Drop(k.handlers[r], n)
           active(o)  == [o EXCEPT !.receiver = None, !.state = "ACTIVE"]
           blocked(o) == [o EXCEPT !.submits = 0, !.ack = FALSE]
           th == [ t \in Thread |->
                    IF t \in hs THEN active(k.thread[t]) ELSE k.thread[t] ]
           co == [ c \in Context |->
                    IF c \in cs THEN blocked(k.context[c]) ELSE k.context[c] ]
           ow == [ c \in Context |->
                    IF c \in cs THEN k.owed[c] - k.context[c].submits ELSE k.owed[c] ]
           ha == [ t \in Thread |->
                    IF t \in hs THEN k.deliver[r][CHOOSE i \in 1 .. n : k.handlers[r][i] = t]
                    ELSE k.handles[t] ]
           ev == { <<"delivered", c>> : c \in cs }
           m  == Listen(k, r)
<1>1. /\ k \in KernelState /\ ~k.panic /\ k.panic = FALSE
      /\ k.deliver \in [Receiver -> Seq(Context)] /\ k.handlers \in [Receiver -> Seq(Thread)]
      /\ k.deliver[r] \in Seq(Context) /\ Distinct(k.deliver[r])
      /\ k.handlers[r] \in Seq(Thread) /\ Distinct(k.handlers[r])
      /\ k.thread \in [Thread -> ThreadObject] /\ k.context \in [Context -> ContextObject]
      /\ k.owed \in [Context -> Int] /\ k.unacked \subseteq Context
  BY DEF Sound, KernelState, HandlersInQueue, ContextsInQueue
<1>2. /\ n \in 0 .. Len(k.deliver[r]) /\ n \in 0 .. Len(k.handlers[r])
      /\ n = Len(k.deliver[r]) \/ n = Len(k.handlers[r])
  <2>1. Len(k.deliver[r]) \in Nat /\ Len(k.handlers[r]) \in Nat
    BY <1>1
  <2>2. QED BY <2>1 DEF Minimum
<1> HIDE DEF n
<1>3. /\ d \in Seq(Context) /\ Distinct(d) /\ Elems(d) = Elems(k.deliver[r]) \ cs
      /\ cs \subseteq Elems(k.deliver[r]) /\ cs \subseteq Context
      /\ n = Len(k.deliver[r]) => d = <<>>
  <2>1. /\ d \in Seq(Context) /\ Distinct(d) /\ Elems(d) = Elems(k.deliver[r]) \ cs
        /\ cs \subseteq Elems(k.deliver[r])
        /\ n = Len(k.deliver[r]) => d = <<>>
    BY <1>1, <1>2, DropProps
  <2>2. Elems(k.deliver[r]) \subseteq Context
    BY <1>1, ElemsSubset
  <2>3. QED BY <2>1, <2>2
<1>4. /\ w \in Seq(Thread) /\ Distinct(w) /\ Elems(w) = Elems(k.handlers[r]) \ hs
      /\ hs \subseteq Elems(k.handlers[r]) /\ hs \subseteq Thread
      /\ n = Len(k.handlers[r]) => w = <<>>
  <2>1. /\ w \in Seq(Thread) /\ Distinct(w) /\ Elems(w) = Elems(k.handlers[r]) \ hs
        /\ hs \subseteq Elems(k.handlers[r])
        /\ n = Len(k.handlers[r]) => w = <<>>
    BY <1>1, <1>2, DropProps
  <2>2. Elems(k.handlers[r]) \subseteq Thread
    BY <1>1, ElemsSubset
  <2>3. QED BY <2>1, <2>2
<1>5. \A h \in hs : k.thread[h].state = "AWAITS_SIGNAL"
  <2>1. \A h \in hs : k.thread[h].receiver = r
    BY <1>4 DEF Sound, HandlersInQueue
  <2>2. r # None
    BY SignalAssumption
  <2>3. QED BY <1>4, <2>1, <2>2 DEF Sound, HandlersInQueue
<1> DEFINE ok == \A h \in hs : k.thread[h].state = "AWAITS_SIGNAL"
<1>6. m = [ [k EXCEPT !.panic = @ \/ ~ok] EXCEPT
              !.deliver[r] = d, !.handlers[r] = w, !.thread = th, !.context = co,
              !.handles = ha, !.unacked = @ \cup cs, !.owed = ow, !.event = @ \cup ev ]
  BY <1>1 DEF Listen, KernelAssert, n, Drop, FirstItems
<1>c. ha \in [Thread -> Context \cup {None}]
  <2>1. ASSUME NEW t \in hs
        PROVE  k.deliver[r][CHOOSE i \in 1 .. n : k.handlers[r][i] = t] \in Context
    <3> DEFINE j == CHOOSE i \in 1 .. n : k.handlers[r][i] = t
    <3>1. \E i \in 1 .. n : k.handlers[r][i] = t
      BY <2>1 DEF FirstItems
    <3>2. j \in 1 .. n
      BY <3>1
    <3> HIDE DEF j
    <3>3. j \in 1 .. Len(k.deliver[r])
      <4>1. Len(k.deliver[r]) \in Nat
        BY <1>1
      <4>2. QED BY <1>2, <3>2, <4>1
    <3>4. k.deliver[r][j] \in Context
      BY <1>1, <3>3
    <3>5. QED BY <3>4 DEF j
  <2>2. k.handles \in [Thread -> Context \cup {None}]
    BY <1>1 DEF KernelState
  <2>3. QED BY <2>1, <2>2
<1>7. ok
  BY <1>5
<1>a. \A o \in ThreadObject : /\ active(o) \in ThreadObject
                              /\ active(o).state = "ACTIVE" /\ active(o).receiver = None
                              /\ active(o).kills = o.kills
  BY DEF ThreadObject
<1>b. \A o \in ContextObject : /\ blocked(o) \in ContextObject
                               /\ blocked(o).submits = 0 /\ blocked(o).ack = FALSE
                               /\ blocked(o).exists = o.exists
                               /\ blocked(o).killed = o.killed /\ blocked(o).killer = o.killer
  <2>1. 0 \in 0 .. MaxSubmits
    BY SignalAssumption
  <2>2. QED BY <2>1 DEF ContextObject
<1> HIDE DEF cs, hs, d, w, active, blocked, th, co, ow, ha, ev, m, ok
<1>8. /\ m.deliver = [k.deliver EXCEPT ![r] = d] /\ m.handlers = [k.handlers EXCEPT ![r] = w]
      /\ m.thread = th /\ m.context = co /\ m.unacked = k.unacked \cup cs /\ m.owed = ow
      /\ m.event = k.event \cup ev /\ m.panic = FALSE /\ m.handles = ha
      /\ m = [thread |-> m.thread, context |-> m.context, handlers |-> m.handlers,
              deliver |-> m.deliver, panic |-> m.panic, handles |-> m.handles,
              unacked |-> m.unacked, owed |-> m.owed, event |-> m.event]
  BY <1>1, <1>6, <1>7 DEF KernelState
<1>9. ListenChanges(k, m, r, hs, cs)
  <2>1. /\ \A t \in Thread \ hs : m.thread[t] = k.thread[t]
        /\ \A t \in hs : /\ m.thread[t].state = "ACTIVE" /\ m.thread[t].receiver = None
                         /\ m.thread[t].kills = k.thread[t].kills
    BY <1>1, <1>4, <1>8, <1>a DEF th
  <2>2. /\ \A c \in Context \ cs : m.context[c] = k.context[c]
        /\ \A c \in cs : /\ m.context[c].submits = 0 /\ m.context[c].ack = FALSE
                         /\ m.context[c].exists = k.context[c].exists
                         /\ m.context[c].killed = k.context[c].killed
                         /\ m.context[c].killer = k.context[c].killer
    BY <1>1, <1>3, <1>8, <1>b DEF co
  <2>3. /\ \A c \in Context \ cs : m.owed[c] = k.owed[c]
        /\ \A c \in cs : m.owed[c] = k.owed[c] - k.context[c].submits
    BY <1>1, <1>3, <1>8 DEF ow
  <2>4. QED BY <1>1, <1>3, <1>4, <1>8, <2>1, <2>2, <2>3 DEF ListenChanges, ev
<1>10. Served(m, r)
  BY <1>1, <1>2, <1>3, <1>4, <1>8 DEF Served
<1>11. m \in KernelState
  <2>1. th \in [Thread -> ThreadObject]
    BY <1>1, <1>a DEF th
  <2>2. co \in [Context -> ContextObject]
    BY <1>1, <1>b DEF co
  <2>3. ow \in [Context -> Int]
    BY <1>1 DEF ow, ContextObject
  <2>4. m.event \in SUBSET ({"delivered", "acked", "killed", "cancelled"} \X (Context \cup Thread))
    BY <1>1, <1>3, <1>8 DEF ev, KernelState
  <2>5. m.deliver \in [Receiver -> Seq(Context)] /\ m.handlers \in [Receiver -> Seq(Thread)]
    BY <1>1, <1>3, <1>4, <1>8, SMTT(30)
  <2>6. m.unacked \in SUBSET Context /\ m.panic \in BOOLEAN
    BY <1>1, <1>3, <1>8
  <2>7. QED BY <1>8, <1>c, <2>1, <2>2, <2>3, <2>4, <2>5, <2>6 DEF KernelState
<1>12. QED BY <1>3, <1>4, <1>9, <1>10, <1>11 DEF m

\* _listen leaves queues and objects in accord: what it takes from the queues
\* is blocked or active afterwards.
LEMMA ListenSound ==
  ASSUME NEW k, Sound(k), NEW r \in Receiver
  PROVE  Sound(Listen(k, r))
<1> DEFINE m == Listen(k, r)
<1>1. PICK hs \in SUBSET Elems(k.handlers[r]), cs \in SUBSET Elems(k.deliver[r]) :
        ListenChanges(k, m, r, hs, cs)
  BY ListenPairs
<1>2. m \in KernelState /\ k \in KernelState
  BY ListenPairs DEF Sound
<1> HIDE DEF m
<1>3. /\ k.thread \in [Thread -> ThreadObject] /\ k.context \in [Context -> ContextObject]
      /\ k.deliver \in [Receiver -> Seq(Context)] /\ k.handlers \in [Receiver -> Seq(Thread)]
      /\ k.owed \in [Context -> Int]
  BY <1>2 DEF KernelState
<1>4. hs \subseteq Thread /\ \A h \in hs : k.thread[h].receiver = r
  <2>1. Elems(k.handlers[r]) \subseteq Thread
    BY <1>3, ElemsSubset
  <2>2. QED BY <2>1 DEF Sound, HandlersInQueue
<1>5. cs \subseteq Context /\ \A c \in cs : receiver[c] = r /\ k.context[c].submits > 0 /\ k.context[c].ack
  <2>1. Elems(k.deliver[r]) \subseteq Context
    BY <1>3, ElemsSubset
  <2>2. QED BY <2>1 DEF Sound, ContextsInQueue
<1>6. \A t \in Thread : /\ t \notin hs => m.thread[t] = k.thread[t]
                        /\ t \in hs => /\ m.thread[t].state = "ACTIVE" /\ m.thread[t].receiver = None
                                       /\ m.thread[t].kills = k.thread[t].kills
  BY <1>1, <1>3 DEF ListenChanges
<1>7. \A c \in Context : /\ c \notin cs => m.context[c] = k.context[c] /\ m.owed[c] = k.owed[c]
                         /\ c \in cs => /\ m.context[c].submits = 0 /\ m.context[c].ack = FALSE
                                        /\ m.context[c].exists = k.context[c].exists
                                        /\ m.context[c].killed = k.context[c].killed
                                        /\ m.context[c].killer = k.context[c].killer
                                        /\ m.owed[c] = k.owed[c] - k.context[c].submits
  BY <1>1, <1>3 DEF ListenChanges
<1>8. r # None /\ \A t \in Thread : t # None
  BY SignalAssumption
<1>9. HandlersInQueue(m)
  <2>1. \A t \in Thread : m.thread[t].state = "AWAITS_SIGNAL" <=> m.thread[t].receiver # None
    BY <1>6 DEF Sound, HandlersInQueue
  <2>2. ASSUME NEW q \in Receiver, q # r
        PROVE  /\ Distinct(m.handlers[q])
               /\ \A t \in Thread : t \in Elems(m.handlers[q]) <=> m.thread[t].receiver = q
    <3>1. m.handlers[q] = k.handlers[q]
      BY <1>1, <2>2 DEF ListenChanges
    <3>2. \A t \in hs : k.thread[t].receiver # q /\ m.thread[t].receiver # q
      BY <1>4, <1>6, <2>2, SignalAssumption
    <3>3. QED BY <1>4, <1>6, <3>1, <3>2 DEF Sound, HandlersInQueue
  <2>3. /\ Distinct(m.handlers[r])
        /\ \A t \in Thread : t \in Elems(m.handlers[r]) <=> m.thread[t].receiver = r
    <3>1. Distinct(m.handlers[r]) /\ Elems(m.handlers[r]) = Elems(k.handlers[r]) \ hs
      BY <1>1 DEF ListenChanges
    <3>2. \A t \in Thread : t \in Elems(k.handlers[r]) <=> k.thread[t].receiver = r
      BY DEF Sound, HandlersInQueue
    <3>3. QED BY <1>6, <1>8, <3>1, <3>2
  <2>4. QED BY <2>1, <2>2, <2>3 DEF HandlersInQueue
<1>10. ContextsInQueue(m)
  <2>1. ASSUME NEW q \in Receiver, q # r
        PROVE  /\ Distinct(m.deliver[q])
               /\ \A c \in Context : c \in Elems(m.deliver[q]) <=>
                    receiver[c] = q /\ m.context[c].submits > 0 /\ m.context[c].ack
    <3>1. m.deliver[q] = k.deliver[q]
      BY <1>1, <2>1 DEF ListenChanges
    <3>2. \A c \in cs : receiver[c] # q
      BY <1>5, <2>1
    <3>3. QED BY <1>5, <1>7, <3>1, <3>2 DEF Sound, ContextsInQueue
  <2>2. /\ Distinct(m.deliver[r])
        /\ \A c \in Context : c \in Elems(m.deliver[r]) <=>
             receiver[c] = r /\ m.context[c].submits > 0 /\ m.context[c].ack
    <3>1. Distinct(m.deliver[r]) /\ Elems(m.deliver[r]) = Elems(k.deliver[r]) \ cs
      BY <1>1 DEF ListenChanges
    <3>2. \A c \in Context : c \in Elems(k.deliver[r]) <=>
            receiver[c] = r /\ k.context[c].submits > 0 /\ k.context[c].ack
      BY DEF Sound, ContextsInQueue
    <3>3. QED BY <1>7, <3>1, <3>2
  <2>3. QED BY <2>1, <2>2 DEF ContextsInQueue
<1>11. ContextsSound(m)
  <2>1. m.unacked = k.unacked \cup cs
    BY <1>1 DEF ListenChanges
  <2>2. SUFFICES ASSUME NEW c \in Context
                 PROVE  /\ ~m.context[c].exists => m.context[c].submits = 0 /\ m.context[c].killer = None
                        /\ m.context[c].submits = m.owed[c]
                        /\ c \in m.unacked => m.context[c].exists /\ ~m.context[c].ack
                        /\ m.context[c].exists /\ ~m.context[c].ack /\ ~m.context[c].killed => c \in m.unacked
    BY DEF ContextsSound
  <2>3. /\ ~k.context[c].exists => k.context[c].submits = 0 /\ k.context[c].killer = None
        /\ k.context[c].submits = k.owed[c] /\ k.owed[c] \in Int
        /\ c \in k.unacked => k.context[c].exists /\ ~k.context[c].ack
        /\ k.context[c].exists /\ ~k.context[c].ack /\ ~k.context[c].killed => c \in k.unacked
    BY <1>3 DEF Sound, ContextsSound
  <2>4. CASE c \in cs
    <3>1. k.context[c].exists
      BY <1>5, <2>3, <2>4
    <3>2. m.owed[c] = 0
      BY <1>7, <2>3, <2>4
    <3>3. QED BY <1>7, <2>1, <2>4, <3>1, <3>2
  <2>5. CASE c \notin cs
    BY <1>7, <2>1, <2>3, <2>5
  <2>6. QED BY <2>4, <2>5
<1>12. KillersKnown(m)
  <2>1. SUFFICES ASSUME NEW c \in Context, m.context[c].killer # None
                 PROVE  /\ m.context[c].killed
                        /\ m.thread[m.context[c].killer].state = "AWAITS_SIGNAL_CONTEXT_KILL"
                        /\ m.thread[m.context[c].killer].kills = c
    BY DEF KillersKnown
  <2>2. m.context[c].killer = k.context[c].killer /\ m.context[c].killed = k.context[c].killed
    BY <1>7
  <2>3. k.context[c].killer \in Thread
    BY <1>3, <2>1, <2>2 DEF ContextObject
  <2>4. /\ k.context[c].killed
        /\ k.thread[k.context[c].killer].state = "AWAITS_SIGNAL_CONTEXT_KILL"
        /\ k.thread[k.context[c].killer].kills = c
    BY <2>1, <2>2 DEF Sound, KillersKnown
  <2>5. k.context[c].killer \notin hs
    BY <1>4, <1>8, <2>3, <2>4 DEF Sound, HandlersInQueue
  <2>6. QED BY <1>6, <2>2, <2>3, <2>4, <2>5
<1>13. ~m.panic
  BY <1>1 DEF ListenChanges, Sound
<1>14. Sound(m)
  BY <1>2, <1>9, <1>10, <1>11, <1>12, <1>13 DEF Sound
<1>15. QED BY <1>14 DEF m

\* _listen wakes no killer, serves no other receiver and delivers only what is
\* not being handled; all it reports are the deliveries.
LEMMA ListenEffect ==
  ASSUME NEW k, Sound(k), NEW r \in Receiver
  PROVE  /\ \A q \in Receiver : q = r \/ Served(k, q) => Served(Listen(k, r), q)
         /\ KillersWoken(k) => KillersWoken(Listen(k, r))
         /\ \A c \in Context : <<"delivered", c>> \in Listen(k, r).event =>
              <<"delivered", c>> \in k.event \/ c \notin k.unacked
         /\ \A x \in Context \cup Thread : \A e \in {"acked", "killed", "cancelled"} :
              <<e, x>> \in Listen(k, r).event <=> <<e, x>> \in k.event
<1> DEFINE m == Listen(k, r)
<1>1. PICK hs \in SUBSET Elems(k.handlers[r]), cs \in SUBSET Elems(k.deliver[r]) :
        ListenChanges(k, m, r, hs, cs)
  BY ListenPairs
<1>2. m \in KernelState /\ k \in KernelState /\ Served(m, r)
  BY ListenPairs DEF Sound
<1> HIDE DEF m
<1>3. /\ k.thread \in [Thread -> ThreadObject] /\ k.context \in [Context -> ContextObject]
      /\ k.deliver \in [Receiver -> Seq(Context)] /\ k.handlers \in [Receiver -> Seq(Thread)]
  BY <1>2 DEF KernelState
<1>4. \A q \in Receiver : q = r \/ Served(k, q) => Served(m, q)
  BY <1>1, <1>2 DEF ListenChanges, Served
<1>5. KillersWoken(k) => KillersWoken(m)
  <2>1. SUFFICES ASSUME KillersWoken(k), NEW t \in Thread
                 PROVE  IF m.thread[t].state = "AWAITS_SIGNAL_CONTEXT_KILL"
                        THEN /\ m.thread[t].kills \in Context
                             /\ m.context[m.thread[t].kills].killer = t
                             /\ m.thread[t].kills \in m.unacked
                        ELSE m.thread[t].kills = None
    BY DEF KillersWoken
  <2>2. \A c \in Context : m.context[c].killer = k.context[c].killer
    BY <1>1, <1>3 DEF ListenChanges
  <2>3. CASE t \in hs
    <3>1. k.thread[t].receiver = r /\ r # None
      BY <2>3, SignalAssumption DEF Sound, HandlersInQueue
    <3>2. k.thread[t].state = "AWAITS_SIGNAL"
      BY <3>1 DEF Sound, HandlersInQueue
    <3>3. m.thread[t].state = "ACTIVE" /\ m.thread[t].kills = k.thread[t].kills
      BY <1>1, <2>3 DEF ListenChanges
    <3>4. QED BY <2>1, <3>2, <3>3 DEF KillersWoken
  <2>4. CASE t \notin hs
    <3>1. m.thread[t] = k.thread[t] /\ k.unacked \subseteq m.unacked
      BY <1>1, <2>4 DEF ListenChanges
    <3>2. QED BY <2>1, <2>2, <3>1 DEF KillersWoken
  <2>5. QED BY <2>3, <2>4
<1>6. \A c \in Context : <<"delivered", c>> \in m.event =>
              <<"delivered", c>> \in k.event \/ c \notin k.unacked
  <2>1. SUFFICES ASSUME NEW c \in Context, c \in cs PROVE c \notin k.unacked
    BY <1>1 DEF ListenChanges
  <2>2. k.context[c].ack
    BY <2>1 DEF Sound, ContextsInQueue
  <2>3. QED BY <2>2 DEF Sound, ContextsSound
<1>7. \A x \in Context \cup Thread : \A e \in {"acked", "killed", "cancelled"} :
              <<e, x>> \in m.event <=> <<e, x>> \in k.event
  BY <1>1 DEF ListenChanges
<1>8. QED BY <1>4, <1>5, <1>6, <1>7 DEF m

\* The state in which _deliverable is called: context c may have got submits
\* or its acknowledgement without being queued yet.
SoundBut(k, c) ==
  /\ k \in KernelState
  /\ ~k.panic
  /\ HandlersInQueue(k)
  /\ \A r \in Receiver : Distinct(k.deliver[r])
  /\ \A r \in Receiver, d \in Context \ {c} :
       d \in Elems(k.deliver[r]) <=>
         receiver[d] = r /\ k.context[d].submits > 0 /\ k.context[d].ack
  /\ \A r \in Receiver : c \in Elems(k.deliver[r]) => receiver[c] = r /\ k.context[c].submits > 0
  /\ k.context[c].ack
  /\ ContextsSound(k)
  /\ KillersKnown(k)

\* What a kernel call m that started in state k has not done: blocked a handler
\* at a receiver that has something to deliver, delivered twice, or reported
\* anything but deliveries.
Careful(k, m) ==
  /\ \A r \in Receiver : Served(k, r) => Served(m, r)
  /\ KillersWoken(k) => KillersWoken(m)
  /\ \A c \in Context : <<"delivered", c>> \in m.event =>
       <<"delivered", c>> \in k.event \/ c \notin k.unacked
  /\ \A x \in Context \cup Thread : \A e \in {"acked", "killed", "cancelled"} :
       <<e, x>> \in m.event <=> <<e, x>> \in k.event

\* _deliverable queues the context, if that is called for, and serves handlers.
LEMMA DeliverableSound ==
  ASSUME NEW k, NEW c \in Context, SoundBut(k, c)
  PROVE  Sound(Deliverable(k, c)) /\ Careful(k, Deliverable(k, c))
<1>1. /\ k \in KernelState /\ k.deliver \in [Receiver -> Seq(Context)]
      /\ k.context[c].submits \in Nat
  BY DEF SoundBut, KernelState, ContextObject
<1>2. CASE k.context[c].submits = 0
  <2>1. Deliverable(k, c) = k
    BY <1>2 DEF Deliverable
  <2>2. \A r \in Receiver, d \in Context :
          d \in Elems(k.deliver[r]) <=> receiver[d] = r /\ k.context[d].submits > 0 /\ k.context[d].ack
    BY <1>2 DEF SoundBut
  <2>3. QED BY <2>1, <2>2 DEF SoundBut, Sound, ContextsInQueue, Careful
<1>3. CASE k.context[c].submits > 0
  <2> DEFINE r == receiver[c]
             q == IF c \in Elems(k.deliver[r]) THEN k
                  ELSE [k EXCEPT !.deliver[r] = InsertTail(@, c)]
  <2>1. Deliverable(k, c) = Listen(q, r)
    BY <1>3 DEF Deliverable, AddDeliverable
  <2>2. r \in Receiver
    BY SignalAssumption
  <2> HIDE DEF r
  <2>3. /\ q.thread = k.thread /\ q.context = k.context /\ q.handlers = k.handlers
        /\ q.panic = k.panic /\ q.unacked = k.unacked /\ q.owed = k.owed /\ q.event = k.event
        /\ q \in KernelState
        /\ \A x \in Receiver \ {r} : q.deliver[x] = k.deliver[x]
        /\ Distinct(q.deliver[r])
        /\ Elems(q.deliver[r]) = Elems(k.deliver[r]) \cup {c}
    <3>1. CASE c \in Elems(k.deliver[r])
      BY <1>1, <2>2, <3>1 DEF SoundBut
    <3>2. CASE c \notin Elems(k.deliver[r])
      <4> DEFINE l == InsertTail(k.deliver[r], c)
      <4>1. k.deliver[r] \in Seq(Context) /\ Distinct(k.deliver[r])
        BY <1>1, <2>2 DEF SoundBut
      <4>2. /\ l \in Seq(Context) /\ Distinct(l)
            /\ Elems(l) = Elems(k.deliver[r]) \cup {c}
        BY <3>2, <4>1, InsertTailProps
      <4>3. q = [k EXCEPT !.deliver[r] = l]
        BY <3>2
      <4> HIDE DEF l, q
      <4>4. /\ q.thread = k.thread /\ q.context = k.context /\ q.handlers = k.handlers
            /\ q.panic = k.panic /\ q.unacked = k.unacked /\ q.owed = k.owed /\ q.event = k.event
            /\ q.deliver = [k.deliver EXCEPT ![r] = l]
        BY <1>1, <4>3 DEF KernelState
      <4>5. q \in KernelState
        <5>1. [k.deliver EXCEPT ![r] = l] \in [Receiver -> Seq(Context)]
          BY <1>1, <4>2
        <5>2. QED BY <1>1, <4>3, <5>1 DEF KernelState
      <4>6. QED BY <1>1, <2>2, <4>2, <4>4, <4>5
    <3>3. QED BY <3>1, <3>2
  <2> HIDE DEF q
  <2>4. Sound(q)
    <3>1. ContextsInQueue(q)
      <4>1. \A x \in Receiver : Distinct(q.deliver[x])
        BY <2>3 DEF SoundBut
      <4>2. ASSUME NEW x \in Receiver, NEW d \in Context
            PROVE  d \in Elems(q.deliver[x]) <=>
                     receiver[d] = x /\ q.context[d].submits > 0 /\ q.context[d].ack
        <5>1. d # c => (d \in Elems(q.deliver[x]) <=> d \in Elems(k.deliver[x]))
          BY <2>3
        <5>2. CASE d # c
          BY <2>3, <5>1, <5>2 DEF SoundBut
        <5>3. CASE d = c
          BY <1>3, <2>2, <2>3, <5>3 DEF SoundBut, r
        <5>4. QED BY <5>2, <5>3
      <4>3. QED BY <4>1, <4>2 DEF ContextsInQueue
    <3>2. HandlersInQueue(q) /\ ContextsSound(q) /\ KillersKnown(q)
      BY <2>3 DEF SoundBut, HandlersInQueue, ContextsSound, KillersKnown
    <3>3. QED BY <2>3, <3>1, <3>2 DEF SoundBut, Sound
  <2>5. Sound(Listen(q, r))
    BY <2>2, <2>4, ListenSound
  <2>6. Careful(k, Listen(q, r))
    <3>1. \A x \in Receiver : Served(k, x) => x = r \/ Served(q, x)
      BY <2>3 DEF Served
    <3>2. KillersWoken(k) => KillersWoken(q)
      BY <2>3 DEF KillersWoken
    <3>3. QED BY <2>2, <2>3, <2>4, <3>1, <3>2, ListenEffect DEF Careful
  <2>7. QED BY <2>1, <2>5, <2>6
<1>4. QED BY <1>1, <1>2, <1>3

---------------------------------------------------------------------------
(***************************************************************************)
(* Each kernel call leaves a sound kernel                                  *)
(***************************************************************************)

\* A kill that reports success leaves no delivery of the context unhandled.
KillsReported(k) == \A c \in Context : <<"killed", c>> \in k.event => c \notin k.unacked

\* A context delivers only if userland has no delivery of it, or gives it back.
DeliveriesInOrder(k) ==
  \A c \in Context : <<"delivered", c>> \in k.event => c \notin unacked \/ <<"acked", c>> \in k.event

\* The inductive invariant
SignalInv ==
  /\ Sound(Kernel)
  /\ \A r \in Receiver : Served(Kernel, r)
  /\ live \subseteq Receiver
  /\ event \subseteq ({"delivered", "acked", "killed", "cancelled"} \X (Context \cup Thread))
  /\ \A c \in Context : <<"killed", c>> \in event => c \notin unacked

\* What a kernel call must leave behind
GoodCall(k) ==
  /\ Sound(k)
  /\ \A r \in Receiver : Served(k, r)
  /\ KillsReported(k)
  /\ DeliveriesInOrder(k)

\* The members of the kernel state
LEMMA KernelFields ==
  /\ Kernel.thread = thread /\ Kernel.context = context /\ Kernel.handlers = handlers
  /\ Kernel.deliver = deliver /\ Kernel.panic = panic /\ Kernel.unacked = unacked
  /\ Kernel.owed = owed /\ Kernel.event = {} /\ Kernel.handles = handles
  BY DEF Kernel

\* Signal_context::submit
LEMMA SubmitStep ==
  ASSUME SignalInv, NEW c \in Context, NEW n \in Num, Submit(c, n)
  PROVE  \E k : Becomes(k) /\ GoodCall(k) /\ (KillersWoken(Kernel) => KillersWoken(k))
<1> DEFINE s == Wrapped(context[c].submits + n)
           k == [Kernel EXCEPT !.context[c].submits = s, !.owed[c] = @ + n]
           m == IF context[c].ack THEN Deliverable(k, c) ELSE k
<1>1. /\ context[c].exists /\ ~context[c].killed /\ context[c].submits < MaxSubmits - n
      /\ Becomes(m)
  BY KernelFields DEF Submit, Kernel
<1>2. /\ Kernel \in KernelState /\ context \in [Context -> ContextObject]
      /\ owed \in [Context -> Int] /\ context[c].submits \in Nat /\ context[c].submits = owed[c]
      /\ n \in Nat /\ n > 0 /\ MaxSubmits \in Nat
  BY KernelFields, SignalAssumption DEF SignalInv, Sound, ContextsSound, KernelState, ContextObject
<1>3. s = context[c].submits + n /\ s \in 0 .. MaxSubmits /\ s > 0
  BY <1>1, <1>2 DEF Wrapped
<1> HIDE DEF s
<1>4. /\ k.thread = thread /\ k.handlers = handlers /\ k.deliver = deliver
      /\ k.panic = panic /\ k.unacked = unacked /\ k.event = {}
      /\ k.context = [context EXCEPT ![c] = [@ EXCEPT !.submits = s]]
      /\ k.owed = [owed EXCEPT ![c] = @ + n]
  BY DEF Kernel
<1>5. [context[c] EXCEPT !.submits = s] \in ContextObject
  BY <1>2, <1>3 DEF ContextObject
<1>6. k \in KernelState
  <2>1. /\ [Kernel.context EXCEPT ![c] = [@ EXCEPT !.submits = s]] \in [Context -> ContextObject]
        /\ [Kernel.owed EXCEPT ![c] = @ + n] \in [Context -> Int]
    BY <1>2, <1>5, KernelFields
  <2>2. QED BY <1>2, <2>1 DEF KernelState
<1> HIDE DEF k
<1>7. /\ \A d \in Context \ {c} : k.context[d] = context[d] /\ k.owed[d] = owed[d]
      /\ k.context[c].submits = s /\ k.owed[c] = s
      /\ k.context[c].exists = context[c].exists /\ k.context[c].ack = context[c].ack
      /\ k.context[c].killed = context[c].killed /\ k.context[c].killer = context[c].killer
  BY <1>2, <1>3, <1>4 DEF ContextObject
<1>8. /\ HandlersInQueue(k) /\ ContextsSound(k) /\ KillersKnown(k)
  <2>1. HandlersInQueue(k)
    BY <1>4, KernelFields DEF SignalInv, Sound, HandlersInQueue
  <2>2. ContextsSound(k)
    BY <1>1, <1>4, <1>7, KernelFields DEF SignalInv, Sound, ContextsSound
  <2>3. KillersKnown(k)
    BY <1>4, <1>7, KernelFields DEF SignalInv, Sound, KillersKnown
  <2>4. QED BY <2>1, <2>2, <2>3
<1>9. /\ KillersWoken(Kernel) => KillersWoken(k)
      /\ \A r \in Receiver : Served(k, r)
  <2>1. \A d \in Context : k.context[d].killer = context[d].killer
    BY <1>7
  <2>2. QED BY <1>4, <2>1, KernelFields DEF SignalInv, KillersWoken, Served
<1>10. /\ ~k.panic
       /\ \A r \in Receiver : Distinct(k.deliver[r])
       /\ \A r \in Receiver, d \in Context \ {c} :
            d \in Elems(k.deliver[r]) <=> receiver[d] = r /\ k.context[d].submits > 0 /\ k.context[d].ack
       /\ \A r \in Receiver : c \in Elems(k.deliver[r]) =>
            receiver[c] = r /\ context[c].ack
  BY <1>4, <1>7, KernelFields DEF SignalInv, Sound, ContextsInQueue
<1>11. CASE context[c].ack
  <2>1. SoundBut(k, c)
    BY <1>3, <1>6, <1>7, <1>8, <1>10, <1>11 DEF SoundBut
  <2>2. Sound(m) /\ Careful(k, m)
    BY <1>11, <2>1, DeliverableSound
  <2> HIDE DEF m
  <2>3. GoodCall(m) /\ (KillersWoken(Kernel) => KillersWoken(m))
    BY <1>4, <1>9, <2>2 DEF Careful, GoodCall, KillsReported, DeliveriesInOrder
  <2>4. QED BY <1>1, <2>3
<1>12. CASE ~context[c].ack
  <2>1. m = k
    BY <1>12
  <2>2. Sound(k)
    BY <1>6, <1>7, <1>8, <1>10, <1>12 DEF Sound, ContextsInQueue
  <2> HIDE DEF m
  <2>3. GoodCall(k)
    BY <1>4, <1>9, <2>2 DEF GoodCall, KillsReported, DeliveriesInOrder
  <2>4. QED BY <1>1, <1>9, <2>1, <2>3
<1>13. QED BY <1>11, <1>12

\* What _become_active changes
WokenUp(k, m, t) ==
  /\ m.thread = [k.thread EXCEPT ![t] = [@ EXCEPT !.state = "ACTIVE"]]
  /\ m.context = k.context /\ m.handlers = k.handlers /\ m.deliver = k.deliver
  /\ m.panic = k.panic /\ m.unacked = k.unacked /\ m.owed = k.owed /\ m.event = k.event

\* _become_active of a thread that is in the expected state passes the
\* assertion.
LEMMA WakeProps ==
  ASSUME NEW k \in KernelState, NEW t \in Thread, NEW s, k.thread[t].state = s
  PROVE  Wake(k, t, s) \in KernelState /\ WokenUp(k, Wake(k, t, s), t)
<1> DEFINE ok == k.thread[t].state = s
           q == [k EXCEPT !.panic = @ \/ ~ok]
           m == [q EXCEPT !.thread[t].state = "ACTIVE"]
<1>1. m = Wake(k, t, s)
  BY DEF Wake, KernelAssert
<1>2. k.panic \in BOOLEAN /\ k.thread \in [Thread -> ThreadObject]
  BY DEF KernelState
<1>3. ok
  OBVIOUS
<1> HIDE DEF ok
<1>4. /\ q \in KernelState /\ q.thread = k.thread /\ q.context = k.context
      /\ q.handlers = k.handlers /\ q.deliver = k.deliver /\ q.unacked = k.unacked
      /\ q.owed = k.owed /\ q.event = k.event /\ q.panic = (k.panic \/ ~ok)
  BY <1>2 DEF KernelState
<1>5. q.panic = k.panic
  BY <1>2, <1>3, <1>4
<1> HIDE DEF q
<1>6. [k.thread[t] EXCEPT !.state = "ACTIVE"] \in ThreadObject
  BY <1>2 DEF ThreadObject
<1>7. [q.thread EXCEPT ![t] = [@ EXCEPT !.state = "ACTIVE"]] \in [Thread -> ThreadObject]
  BY <1>2, <1>4, <1>6
<1>8. m \in KernelState
  BY <1>4, <1>7 DEF KernelState
<1>9. WokenUp(k, m, t)
  BY <1>4, <1>5 DEF WokenUp, KernelState
<1>10. QED BY <1>1, <1>8, <1>9

\* Taking a delivery back from userland
LEMMA AckedState ==
  ASSUME SignalInv, NEW a \in Thread, NEW c \in Context
  PROVE  LET q == [Kernel EXCEPT !.handles[a] = None, !.unacked = @ \ {c}, !.event = {<<"acked", c>>}]
         IN  /\ q \in KernelState /\ q.thread = thread /\ q.context = context
             /\ q.handlers = handlers /\ q.deliver = deliver /\ q.panic = panic /\ q.owed = owed
             /\ q.unacked = unacked \ {c} /\ q.event = {<<"acked", c>>}
<1> DEFINE q == [Kernel EXCEPT !.handles[a] = None, !.unacked = @ \ {c}, !.event = {<<"acked", c>>}]
<1>1. Kernel \in KernelState
  BY DEF SignalInv, Sound
<1>2. Kernel.unacked \ {c} \in SUBSET Context
  BY <1>1 DEF KernelState
<1>3. {<<"acked", c>>} \in SUBSET ({"delivered", "acked", "killed", "cancelled"} \X (Context \cup Thread))
  OBVIOUS
<1>4. q \in KernelState
  <2>1. [Kernel.handles EXCEPT ![a] = None] \in [Thread -> Context \cup {None}]
    BY <1>1 DEF KernelState
  <2>2. QED BY <1>1, <1>2, <1>3, <2>1 DEF KernelState
<1>5. QED BY <1>4 DEF Kernel

\* Signal_context::ack of a context that lives on: it may deliver again.
LEMMA AckDelivers ==
  ASSUME SignalInv, NEW a \in Thread, NEW c \in Context, Ack(a, c), ~context[c].killed
  PROVE  \E k : Becomes(k) /\ GoodCall(k) /\ (KillersWoken(Kernel) => KillersWoken(k))
<1> DEFINE q == [Kernel EXCEPT !.handles[a] = None, !.unacked = @ \ {c}, !.event = {<<"acked", c>>}]
           k == [q EXCEPT !.context[c].ack = TRUE]
           m == Deliverable(k, c)
<1>1. context[c].exists /\ ~context[c].ack /\ Becomes(m)
  BY DEF Ack
<1>2. /\ Kernel \in KernelState /\ context \in [Context -> ContextObject]
      /\ unacked \subseteq Context
  BY KernelFields DEF SignalInv, Sound, KernelState
<1>3. /\ k.thread = thread /\ k.handlers = handlers /\ k.deliver = deliver
      /\ k.panic = panic /\ k.unacked = unacked \ {c} /\ k.event = {<<"acked", c>>}
      /\ k.context = [context EXCEPT ![c] = [@ EXCEPT !.ack = TRUE]]
      /\ k.owed = owed
  BY DEF Kernel
<1>4. k \in KernelState
  <2>1. [context[c] EXCEPT !.ack = TRUE] \in ContextObject
    BY <1>2 DEF ContextObject
  <2>2. [Kernel.context EXCEPT ![c] = [@ EXCEPT !.ack = TRUE]] \in [Context -> ContextObject]
    BY <1>2, <2>1, KernelFields
  <2>3. q \in KernelState /\ q.context = Kernel.context
    BY AckedState, KernelFields
  <2> HIDE DEF q
  <2>4. QED BY <2>2, <2>3 DEF KernelState
<1> HIDE DEF q, k
<1>5. /\ \A d \in Context \ {c} : k.context[d] = context[d]
      /\ k.context[c].submits = context[c].submits /\ k.context[c].ack
      /\ k.context[c].exists = context[c].exists
      /\ k.context[c].killed = context[c].killed /\ k.context[c].killer = context[c].killer
  BY <1>2, <1>3 DEF ContextObject
<1>6. HandlersInQueue(k) /\ ContextsSound(k) /\ KillersKnown(k)
  <2>1. HandlersInQueue(k)
    BY <1>3, KernelFields DEF SignalInv, Sound, HandlersInQueue
  <2>2. ContextsSound(k)
    BY <1>1, <1>3, <1>5, KernelFields DEF SignalInv, Sound, ContextsSound
  <2>3. KillersKnown(k)
    BY <1>3, <1>5, KernelFields DEF SignalInv, Sound, KillersKnown
  <2>4. QED BY <2>1, <2>2, <2>3
<1>7. /\ ~k.panic
      /\ \A r \in Receiver : Distinct(k.deliver[r])
      /\ \A r \in Receiver, d \in Context \ {c} :
           d \in Elems(k.deliver[r]) <=> receiver[d] = r /\ k.context[d].submits > 0 /\ k.context[d].ack
      /\ \A r \in Receiver : c \notin Elems(k.deliver[r])
  BY <1>1, <1>3, <1>5, KernelFields DEF SignalInv, Sound, ContextsInQueue
<1>8. SoundBut(k, c)
  BY <1>4, <1>5, <1>6, <1>7 DEF SoundBut
<1>9. KillersWoken(Kernel) => KillersWoken(k)
  <2>1. context[c].killer = None
    BY KernelFields DEF SignalInv, Sound, KillersKnown
  <2>2. \A t \in Thread : t # None
    BY SignalAssumption
  <2>3. \A d \in Context : k.context[d].killer = context[d].killer
    BY <1>5
  <2>4. QED BY <1>3, <2>1, <2>2, <2>3, KernelFields DEF KillersWoken
<1>10. \A r \in Receiver : Served(k, r)
  BY <1>3, KernelFields DEF SignalInv, Served
<1>11. Sound(m) /\ Careful(k, m)
  BY <1>8, DeliverableSound
<1> HIDE DEF m
<1>12. GoodCall(m)
  BY <1>3, <1>10, <1>11 DEF Careful, GoodCall, KillsReported, DeliveriesInOrder
<1>13. QED BY <1>1, <1>9, <1>11, <1>12 DEF Careful

\* Signal_context::ack of a killed context whose killer has gone
LEMMA AckKilled ==
  ASSUME SignalInv, NEW a \in Thread, NEW c \in Context, Ack(a, c), context[c].killed, context[c].killer = None
  PROVE  \E k : Becomes(k) /\ GoodCall(k) /\ (KillersWoken(Kernel) => KillersWoken(k))
<1> DEFINE k == [Kernel EXCEPT !.handles[a] = None, !.unacked = @ \ {c}, !.event = {<<"acked", c>>}]
<1>1. Becomes(k)
  BY DEF Ack
<1>3. /\ k.thread = thread /\ k.handlers = handlers /\ k.deliver = deliver
      /\ k.panic = panic /\ k.unacked = unacked \ {c} /\ k.event = {<<"acked", c>>}
      /\ k.context = context /\ k.owed = owed
      /\ k \in KernelState
  BY AckedState
<1> HIDE DEF k
<1>5. Sound(k)
  <2>1. HandlersInQueue(k) /\ ContextsInQueue(k) /\ KillersKnown(k) /\ ~k.panic
    BY <1>3, KernelFields DEF SignalInv, Sound, HandlersInQueue, ContextsInQueue, KillersKnown
  <2>2. ContextsSound(k)
    BY <1>3, KernelFields DEF SignalInv, Sound, ContextsSound
  <2>3. QED BY <1>3, <2>1, <2>2 DEF Sound
<1>6. KillersWoken(Kernel) => KillersWoken(k)
  <2>1. \A t \in Thread : t # None
    BY SignalAssumption
  <2>2. QED BY <1>3, <2>1, KernelFields DEF KillersWoken
<1>7. GoodCall(k)
  BY <1>3, <1>5, KernelFields DEF SignalInv, Served, GoodCall, KillsReported, DeliveriesInOrder
<1>8. QED BY <1>1, <1>6, <1>7

\* Signal_context::ack of a context that a thread waits to be killed: the thread
\* is in the state that its wake-up asserts.
LEMMA AckWakesKiller ==
  ASSUME SignalInv, NEW a \in Thread, NEW c \in Context, Ack(a, c), context[c].killed, context[c].killer # None
  PROVE  \E k : Becomes(k) /\ GoodCall(k) /\ (KillersWoken(Kernel) => KillersWoken(k))
<1> DEFINE t == context[c].killer
           q == [Kernel EXCEPT !.handles[a] = None, !.unacked = @ \ {c}, !.event = {<<"acked", c>>}]
           p == [q EXCEPT !.thread[t].kills = None, !.context[c].killer = None,
                          !.event = @ \cup {<<"killed", c>>}]
           k == Wake(p, t, "AWAITS_SIGNAL_CONTEXT_KILL")
<1>1. context[c].exists /\ ~context[c].ack /\ Becomes(k)
  BY DEF Ack
<1>2. /\ Kernel \in KernelState /\ context \in [Context -> ContextObject]
      /\ thread \in [Thread -> ThreadObject] /\ unacked \subseteq Context
      /\ t \in Thread
  BY KernelFields DEF SignalInv, Sound, KernelState, ContextObject
<1>3. thread[t].state = "AWAITS_SIGNAL_CONTEXT_KILL" /\ thread[t].kills = c /\ panic = FALSE
  BY <1>2, KernelFields DEF SignalInv, Sound, KillersKnown, KernelState
<1> HIDE DEF t
<1>4. /\ q \in KernelState /\ q.thread = thread /\ q.context = context /\ q.handlers = handlers
      /\ q.deliver = deliver /\ q.panic = FALSE /\ q.owed = owed
      /\ q.unacked = unacked \ {c} /\ q.event = {<<"acked", c>>}
  BY <1>3, AckedState
<1> HIDE DEF q
<1>5. /\ [thread[t] EXCEPT !.kills = None] \in ThreadObject
      /\ [context[c] EXCEPT !.killer = None] \in ContextObject
  BY <1>2 DEF ThreadObject, ContextObject
<1>6. /\ p \in KernelState
      /\ p.thread = [thread EXCEPT ![t] = [@ EXCEPT !.kills = None]]
      /\ p.context = [context EXCEPT ![c] = [@ EXCEPT !.killer = None]]
      /\ p.handlers = handlers /\ p.deliver = deliver /\ p.panic = FALSE /\ p.owed = owed
      /\ p.unacked = unacked \ {c} /\ p.event = {<<"acked", c>>, <<"killed", c>>}
  <2>1. /\ [q.thread EXCEPT ![t] = [@ EXCEPT !.kills = None]] \in [Thread -> ThreadObject]
        /\ [q.context EXCEPT ![c] = [@ EXCEPT !.killer = None]] \in [Context -> ContextObject]
    BY <1>2, <1>4, <1>5
  <2>2. q.event \cup {<<"killed", c>>} \in
          SUBSET ({"delivered", "acked", "killed", "cancelled"} \X (Context \cup Thread))
    BY <1>4
  <2>3. p \in KernelState
    BY <1>4, <2>1, <2>2 DEF KernelState
  <2>4. /\ p.thread = [thread EXCEPT ![t] = [@ EXCEPT !.kills = None]]
        /\ p.context = [context EXCEPT ![c] = [@ EXCEPT !.killer = None]]
        /\ p.handlers = handlers /\ p.deliver = deliver /\ p.panic = FALSE /\ p.owed = owed
        /\ p.unacked = unacked \ {c} /\ p.event = q.event \cup {<<"killed", c>>}
    BY <1>4 DEF KernelState
  <2>5. QED BY <1>4, <2>3, <2>4
<1> HIDE DEF p
<1>7. p.thread[t].state = "AWAITS_SIGNAL_CONTEXT_KILL"
  BY <1>2, <1>3, <1>6 DEF ThreadObject
<1>8. k \in KernelState /\ WokenUp(p, k, t)
  BY <1>2, <1>6, <1>7, WakeProps
<1> HIDE DEF k
<1>9. /\ \A u \in Thread \ {t} : k.thread[u] = thread[u]
      /\ k.thread[t].state = "ACTIVE" /\ k.thread[t].kills = None
      /\ k.thread[t].receiver = thread[t].receiver
      /\ k.handlers = handlers /\ k.deliver = deliver /\ ~k.panic /\ k.owed = owed
      /\ k.unacked = unacked \ {c} /\ k.event = {<<"acked", c>>, <<"killed", c>>}
  BY <1>2, <1>6, <1>8 DEF WokenUp, ThreadObject
<1>10. /\ \A d \in Context \ {c} : k.context[d] = context[d]
       /\ k.context[c].submits = context[c].submits /\ k.context[c].ack = context[c].ack
       /\ k.context[c].exists = context[c].exists
       /\ k.context[c].killed = context[c].killed /\ k.context[c].killer = None
  <2>1. k.context = [context EXCEPT ![c] = [@ EXCEPT !.killer = None]]
    BY <1>6, <1>8 DEF WokenUp
  <2>2. k.context[c] = [context[c] EXCEPT !.killer = None] /\ context[c] \in ContextObject
    BY <1>2, <2>1
  <2>3. \A d \in Context \ {c} : k.context[d] = context[d]
    BY <1>2, <2>1
  <2>4. QED BY <2>2, <2>3 DEF ContextObject
<1>11. thread[t].receiver = None
  BY <1>2, <1>3, KernelFields DEF SignalInv, Sound, HandlersInQueue
<1>12. HandlersInQueue(k)
  BY <1>2, <1>3, <1>9, <1>11, KernelFields, SignalAssumption DEF SignalInv, Sound, HandlersInQueue
<1>13. ContextsInQueue(k)
  BY <1>9, <1>10, KernelFields DEF SignalInv, Sound, ContextsInQueue
<1>14. ContextsSound(k)
  <2>1. ContextsSound(Kernel)
    BY DEF SignalInv, Sound
  <2>2. SUFFICES ASSUME NEW d \in Context
                 PROVE  /\ ~k.context[d].exists => k.context[d].submits = 0 /\ k.context[d].killer = None
                        /\ k.context[d].submits = k.owed[d]
                        /\ d \in k.unacked => k.context[d].exists /\ ~k.context[d].ack
                        /\ k.context[d].exists /\ ~k.context[d].ack /\ ~k.context[d].killed => d \in k.unacked
    BY DEF ContextsSound
  <2>3. CASE d = c
    BY <1>1, <1>9, <1>10, <2>1, <2>3, KernelFields, ZenonT(60) DEF ContextsSound
  <2>4. CASE d # c
    BY <1>9, <1>10, <2>1, <2>4, KernelFields DEF ContextsSound
  <2>5. QED BY <2>3, <2>4
<1>15. KillersKnown(k)
  <2>1. \A d \in Context \ {c} : context[d].killer # t
    BY <1>2, <1>3, KernelFields, SignalAssumption DEF SignalInv, Sound, KillersKnown
  <2>2. \A d \in Context : context[d].killer \in Thread \cup {None}
    BY <1>2 DEF ContextObject
  <2>3. QED BY <1>9, <1>10, <2>1, <2>2, KernelFields DEF SignalInv, Sound, KillersKnown
<1>16. KillersWoken(Kernel) => KillersWoken(k)
  <2>1. SUFFICES ASSUME KillersWoken(Kernel), NEW u \in Thread
                 PROVE  IF k.thread[u].state = "AWAITS_SIGNAL_CONTEXT_KILL"
                        THEN /\ k.thread[u].kills \in Context
                             /\ k.context[k.thread[u].kills].killer = u
                             /\ k.thread[u].kills \in k.unacked
                        ELSE k.thread[u].kills = None
    BY DEF KillersWoken
  <2>2. CASE u = t
    BY <1>9, <2>2
  <2>3. CASE u # t
    BY <1>9, <1>10, <2>1, <2>3, KernelFields DEF KillersWoken, t
  <2>4. QED BY <2>2, <2>3
<1>17. GoodCall(k)
  <2>1. Sound(k)
    BY <1>8, <1>9, <1>12, <1>13, <1>14, <1>15 DEF Sound
  <2>2. QED BY <1>9, <2>1, KernelFields DEF SignalInv, Served, GoodCall, KillsReported, DeliveriesInOrder
<1>18. QED BY <1>1, <1>16, <1>17

\* Signal_context::ack
LEMMA AckStep ==
  ASSUME SignalInv, NEW a \in Thread, NEW c \in Context, Ack(a, c)
  PROVE  \E k : Becomes(k) /\ GoodCall(k) /\ (KillersWoken(Kernel) => KillersWoken(k))
  BY AckDelivers, AckKilled, AckWakesKiller

\* A call that changes nothing
LEMMA NothingDone ==
  ASSUME SignalInv
  PROVE  GoodCall(Kernel)
  BY KernelFields DEF SignalInv, GoodCall, KillsReported, DeliveriesInOrder

\* Killing a context that has no delivery outstanding ends at once.
LEMMA KillAcked ==
  ASSUME SignalInv, NEW c \in Context, context[c].exists, context[c].ack
  PROVE  LET k == [Kernel EXCEPT !.context[c].killed = TRUE, !.event = {<<"killed", c>>}]
         IN  GoodCall(k) /\ (KillersWoken(Kernel) => KillersWoken(k))
<1> DEFINE k == [Kernel EXCEPT !.context[c].killed = TRUE, !.event = {<<"killed", c>>}]
<1>1. Kernel \in KernelState /\ context \in [Context -> ContextObject]
  BY KernelFields DEF SignalInv, Sound, KernelState
<1>2. /\ k.thread = thread /\ k.handlers = handlers /\ k.deliver = deliver /\ k.owed = owed
      /\ k.panic = panic /\ k.unacked = unacked /\ k.event = {<<"killed", c>>}
      /\ k.context = [context EXCEPT ![c] = [@ EXCEPT !.killed = TRUE]]
  BY DEF Kernel
<1>3. k \in KernelState
  <2>1. [context[c] EXCEPT !.killed = TRUE] \in ContextObject
    BY <1>1 DEF ContextObject
  <2>2. [Kernel.context EXCEPT ![c] = [@ EXCEPT !.killed = TRUE]] \in [Context -> ContextObject]
    BY <1>1, <2>1, KernelFields
  <2>3. {<<"killed", c>>} \in SUBSET ({"delivered", "acked", "killed", "cancelled"} \X (Context \cup Thread))
    OBVIOUS
  <2>4. QED BY <1>1, <2>2, <2>3 DEF KernelState
<1> HIDE DEF k
<1>4. /\ \A d \in Context \ {c} : k.context[d] = context[d]
      /\ k.context[c].submits = context[c].submits /\ k.context[c].ack = context[c].ack
      /\ k.context[c].exists = context[c].exists
      /\ k.context[c].killed /\ k.context[c].killer = context[c].killer
  <2>1. k.context[c] = [context[c] EXCEPT !.killed = TRUE] /\ context[c] \in ContextObject
    BY <1>1, <1>2
  <2>2. \A d \in Context \ {c} : k.context[d] = context[d]
    BY <1>1, <1>2
  <2>3. QED BY <2>1, <2>2 DEF ContextObject
<1>5. HandlersInQueue(k) /\ ~k.panic
  BY <1>2, KernelFields DEF SignalInv, Sound, HandlersInQueue
<1>6. ContextsInQueue(k)
  BY <1>2, <1>4, KernelFields DEF SignalInv, Sound, ContextsInQueue
<1>7. ContextsSound(k)
  BY <1>2, <1>4, KernelFields DEF SignalInv, Sound, ContextsSound
<1>8. KillersKnown(k)
  BY <1>2, <1>4, KernelFields DEF SignalInv, Sound, KillersKnown
<1>9. KillersWoken(Kernel) => KillersWoken(k)
  <2>1. \A d \in Context : k.context[d].killer = context[d].killer
    BY <1>4
  <2>2. QED BY <1>2, <2>1, KernelFields DEF KillersWoken
<1>10. c \notin unacked
  BY KernelFields DEF SignalInv, Sound, ContextsSound
<1>11. Sound(k)
  BY <1>3, <1>5, <1>6, <1>7, <1>8 DEF Sound
<1>12. GoodCall(k)
  BY <1>2, <1>10, <1>11, KernelFields DEF SignalInv, Served, GoodCall, KillsReported, DeliveriesInOrder
<1>13. QED BY <1>9, <1>12 DEF k

\* Killing a context whose last delivery is unacknowledged blocks the killer.
LEMMA KillBlocks ==
  ASSUME SignalInv, NEW c \in Context, NEW t \in Thread, thread[t].state = "ACTIVE",
         context[c].exists, ~context[c].ack, ~context[c].killed
  PROVE  LET k == [Kernel EXCEPT !.context[c].killed = TRUE, !.context[c].killer = t,
                                 !.thread[t].kills = c,
                                 !.thread[t].state = "AWAITS_SIGNAL_CONTEXT_KILL"]
         IN  GoodCall(k) /\ (KillersWoken(Kernel) => KillersWoken(k))
<1> DEFINE k == [Kernel EXCEPT !.context[c].killed = TRUE, !.context[c].killer = t,
                               !.thread[t].kills = c,
                               !.thread[t].state = "AWAITS_SIGNAL_CONTEXT_KILL"]
           co == [context[c] EXCEPT !.killed = TRUE, !.killer = t]
           th == [thread[t] EXCEPT !.kills = c, !.state = "AWAITS_SIGNAL_CONTEXT_KILL"]
<1>1. /\ Kernel \in KernelState /\ context \in [Context -> ContextObject]
      /\ thread \in [Thread -> ThreadObject]
  BY KernelFields DEF SignalInv, Sound, KernelState
<1>2. /\ co \in ContextObject /\ co.submits = context[c].submits /\ co.ack = context[c].ack
      /\ co.exists = context[c].exists /\ co.killed /\ co.killer = t
  BY <1>1 DEF ContextObject
<1>3. /\ th \in ThreadObject /\ th.state = "AWAITS_SIGNAL_CONTEXT_KILL" /\ th.kills = c
      /\ th.receiver = thread[t].receiver
  BY <1>1 DEF ThreadObject
<1>4. k = [Kernel EXCEPT !.context = [Kernel.context EXCEPT ![c] = co],
                         !.thread = [Kernel.thread EXCEPT ![t] = th]]
  BY <1>1, KernelFields
<1> HIDE DEF k, co, th
<1>5. /\ k \in KernelState
      /\ k.handlers = handlers /\ k.deliver = deliver /\ k.owed = owed
      /\ k.panic = panic /\ k.unacked = unacked /\ k.event = {}
      /\ k.context = [context EXCEPT ![c] = co] /\ k.thread = [thread EXCEPT ![t] = th]
  <2>1. /\ [Kernel.context EXCEPT ![c] = co] \in [Context -> ContextObject]
        /\ [Kernel.thread EXCEPT ![t] = th] \in [Thread -> ThreadObject]
    BY <1>1, <1>2, <1>3, KernelFields
  <2>2. k \in KernelState
    BY <1>1, <1>4, <2>1 DEF KernelState
  <2>3. QED BY <1>1, <1>4, <2>2, KernelFields DEF KernelState
<1>6. /\ \A d \in Context \ {c} : k.context[d] = context[d]
      /\ k.context[c] = co
      /\ \A u \in Thread \ {t} : k.thread[u] = thread[u]
      /\ k.thread[t] = th
  BY <1>1, <1>5
<1>7. thread[t].receiver = None
  BY KernelFields DEF SignalInv, Sound, HandlersInQueue
<1>8. HandlersInQueue(k) /\ ~k.panic
  BY <1>3, <1>5, <1>6, <1>7, KernelFields, SignalAssumption DEF SignalInv, Sound, HandlersInQueue
<1>9. ContextsInQueue(k)
  BY <1>2, <1>5, <1>6, KernelFields DEF SignalInv, Sound, ContextsInQueue
<1>10. ContextsSound(k)
  <2>1. ContextsSound(Kernel)
    BY DEF SignalInv, Sound
  <2>2. SUFFICES ASSUME NEW d \in Context
                 PROVE  /\ ~k.context[d].exists => k.context[d].submits = 0 /\ k.context[d].killer = None
                        /\ k.context[d].submits = k.owed[d]
                        /\ d \in k.unacked => k.context[d].exists /\ ~k.context[d].ack
                        /\ k.context[d].exists /\ ~k.context[d].ack /\ ~k.context[d].killed => d \in k.unacked
    BY DEF ContextsSound
  <2>3. CASE d = c
    <3>1. k.context[c].exists /\ ~k.context[c].ack /\ k.context[c].killed
      BY <1>2, <1>6
    <3>2. k.context[c].submits = k.owed[c]
      BY <1>2, <1>5, <1>6, <2>1, KernelFields DEF ContextsSound
    <3>3. QED BY <2>3, <3>1, <3>2
  <2>4. CASE d # c
    BY <1>5, <1>6, <2>1, <2>4, KernelFields DEF ContextsSound
  <2>5. QED BY <2>3, <2>4
<1>11. KillersKnown(k)
  <2>1. \A d \in Context : context[d].killer # t
    BY KernelFields, SignalAssumption DEF SignalInv, Sound, KillersKnown
  <2>2. \A d \in Context : context[d].killer \in Thread \cup {None}
    BY <1>1 DEF ContextObject
  <2>3. QED BY <1>2, <1>3, <1>6, <2>1, <2>2, KernelFields DEF SignalInv, Sound, KillersKnown
<1>12. KillersWoken(Kernel) => KillersWoken(k)
  <2>1. SUFFICES ASSUME KillersWoken(Kernel), NEW u \in Thread
                 PROVE  IF k.thread[u].state = "AWAITS_SIGNAL_CONTEXT_KILL"
                        THEN /\ k.thread[u].kills \in Context
                             /\ k.context[k.thread[u].kills].killer = u
                             /\ k.thread[u].kills \in k.unacked
                        ELSE k.thread[u].kills = None
    BY DEF KillersWoken
  <2>2. c \in unacked /\ context[c].killer = None
    BY KernelFields DEF SignalInv, Sound, ContextsSound, KillersKnown
  <2>3. CASE u = t
    BY <1>2, <1>3, <1>5, <1>6, <2>2, <2>3
  <2>4. CASE u # t
    BY <1>5, <1>6, <2>1, <2>2, <2>4, KernelFields, SignalAssumption DEF KillersWoken
  <2>5. QED BY <2>3, <2>4
<1>13. Sound(k)
  BY <1>5, <1>8, <1>9, <1>10, <1>11 DEF Sound
<1>14. GoodCall(k)
  BY <1>5, <1>13, KernelFields DEF SignalInv, Served, GoodCall, KillsReported, DeliveriesInOrder
<1>15. QED BY <1>12, <1>14 DEF k

\* Signal_context::kill
LEMMA KillStep ==
  ASSUME SignalInv, NEW c \in Context, NEW t \in Thread, Kill(t, c)
  PROVE  \E k : Becomes(k) /\ GoodCall(k) /\ (KillersWoken(Kernel) => KillersWoken(k))
<1>1. thread[t].state = "ACTIVE" /\ context[c].exists
  BY DEF Kill
<1>2. CASE context[c].ack
  BY <1>1, <1>2, KillAcked DEF Kill
<1>3. CASE ~context[c].ack /\ context[c].killed
  BY <1>3, NothingDone DEF Kill
<1>4. CASE ~context[c].ack /\ ~context[c].killed
  BY <1>1, <1>4, KillBlocks DEF Kill
<1>5. QED BY <1>2, <1>3, <1>4

\* A context object as constructed, or none
LEMMA NewContextProps ==
  ASSUME NEW e \in BOOLEAN
  PROVE  LET o == NewContextObject(e)
         IN  /\ o \in ContextObject /\ o.exists = e /\ o.submits = 0 /\ o.ack
             /\ ~o.killed /\ o.killer = None
<1>1. 0 \in 0 .. MaxSubmits
  BY SignalAssumption
<1>2. QED BY <1>1 DEF NewContextObject, ContextObject

\* Constructing a context
LEMMA NewContextStep ==
  ASSUME SignalInv, NEW c \in Context, NewContext(c)
  PROVE  \E k : Becomes(k) /\ GoodCall(k) /\ (KillersWoken(Kernel) => KillersWoken(k))
<1> DEFINE o == NewContextObject(TRUE)
           k == [Kernel EXCEPT !.context[c] = o]
<1>1. ~context[c].exists /\ Becomes(k)
  BY DEF NewContext
<1>2. Kernel \in KernelState /\ context \in [Context -> ContextObject]
  BY KernelFields DEF SignalInv, Sound, KernelState
<1>3. o \in ContextObject /\ o.exists /\ o.submits = 0 /\ o.ack /\ ~o.killed /\ o.killer = None
  BY NewContextProps
<1> HIDE DEF o
<1>4. /\ k.thread = thread /\ k.handlers = handlers /\ k.deliver = deliver /\ k.owed = owed
      /\ k.panic = panic /\ k.unacked = unacked /\ k.event = {}
      /\ k.context = [context EXCEPT ![c] = o]
  BY DEF Kernel
<1>5. k \in KernelState
  BY <1>2, <1>3 DEF KernelState
<1> HIDE DEF k
<1>6. k.context[c] = o /\ \A d \in Context \ {c} : k.context[d] = context[d]
  BY <1>2, <1>4
<1>7. context[c].submits = 0 /\ context[c].killer = None /\ owed[c] = 0 /\ c \notin unacked
  BY <1>1, KernelFields DEF SignalInv, Sound, ContextsSound
<1>8. HandlersInQueue(k) /\ ~k.panic
  BY <1>4, KernelFields DEF SignalInv, Sound, HandlersInQueue
<1>9. ContextsInQueue(k)
  BY <1>3, <1>4, <1>6, <1>7, KernelFields DEF SignalInv, Sound, ContextsInQueue
<1>10. ContextsSound(k)
  BY <1>3, <1>4, <1>6, <1>7, KernelFields DEF SignalInv, Sound, ContextsSound
<1>11. KillersKnown(k)
  BY <1>3, <1>4, <1>6, KernelFields DEF SignalInv, Sound, KillersKnown
<1>12. KillersWoken(Kernel) => KillersWoken(k)
  <2>1. \A d \in Context : k.context[d].killer = context[d].killer
    BY <1>3, <1>6, <1>7
  <2>2. QED BY <1>4, <2>1, KernelFields DEF KillersWoken
<1>13. Sound(k)
  BY <1>5, <1>8, <1>9, <1>10, <1>11 DEF Sound
<1>14. GoodCall(k)
  BY <1>4, <1>13, KernelFields DEF SignalInv, Served, GoodCall, KillsReported, DeliveriesInOrder
<1>15. QED BY <1>1, <1>12, <1>14

\* What ~Signal_context makes of a kernel state once it has woken the killer
Destructed(w, c) ==
  [w EXCEPT !.context[c] = NewContextObject(FALSE),
            !.deliver[receiver[c]] = Remove(@, c),
            !.handles = Unhandled(@, {c}),
            !.unacked = @ \ {c}, !.owed[c] = 0]

DestructChanges(w, k, c) ==
  /\ k.thread = w.thread /\ k.handlers = w.handlers /\ k.panic = w.panic
  /\ k.event = w.event /\ k.unacked = w.unacked \ {c}
  /\ k.context[c] = NewContextObject(FALSE) /\ k.owed[c] = 0
  /\ \A d \in Context \ {c} : k.context[d] = w.context[d] /\ k.owed[d] = w.owed[d]
  /\ \A r \in Receiver \ {receiver[c]} : k.deliver[r] = w.deliver[r]
  /\ Distinct(k.deliver[receiver[c]])
  /\ Elems(k.deliver[receiver[c]]) = Elems(w.deliver[receiver[c]]) \ {c}

\* The context is gone from its receiver's queue, the others stay.
LEMMA DestructProps ==
  ASSUME NEW w \in KernelState, NEW c \in Context,
         \A r \in Receiver : Distinct(w.deliver[r])
  PROVE  Destructed(w, c) \in KernelState /\ DestructChanges(w, Destructed(w, c), c)
<1> DEFINE r == receiver[c]
           o == NewContextObject(FALSE)
           l == Remove(w.deliver[r], c)
           h == Unhandled(w.handles, {c})
           k == [w EXCEPT !.context[c] = o, !.deliver[r] = l, !.handles = h,
                          !.unacked = @ \ {c}, !.owed[c] = 0]
<1>1. r \in Receiver
  BY SignalAssumption
<1>2. o \in ContextObject
  BY NewContextProps
<1>3. /\ w.context \in [Context -> ContextObject] /\ w.deliver \in [Receiver -> Seq(Context)]
      /\ w.owed \in [Context -> Int] /\ w.unacked \in SUBSET Context
  BY DEF KernelState
<1>4. l \in Seq(Context) /\ Distinct(l) /\ Elems(l) = Elems(w.deliver[r]) \ {c}
  <2>1. w.deliver[r] \in Seq(Context) /\ Distinct(w.deliver[r])
    BY <1>1, <1>3
  <2>2. QED BY <2>1, RemoveProps
<1>a. h \in [Thread -> Context \cup {None}]
  <2>1. w.handles \in [Thread -> Context \cup {None}]
    BY DEF KernelState
  <2>2. QED BY <2>1 DEF Unhandled
<1> HIDE DEF r, o, l, h
<1>5. /\ [w.context EXCEPT ![c] = o] \in [Context -> ContextObject]
      /\ [w.deliver EXCEPT ![r] = l] \in [Receiver -> Seq(Context)]
      /\ [w.owed EXCEPT ![c] = 0] \in [Context -> Int] /\ w.unacked \ {c} \in SUBSET Context
  BY <1>1, <1>2, <1>3, <1>4
<1>6. k \in KernelState
  BY <1>5, <1>a DEF KernelState
<1>7. /\ k.thread = w.thread /\ k.handlers = w.handlers /\ k.panic = w.panic
      /\ k.event = w.event /\ k.unacked = w.unacked \ {c}
      /\ k.context = [w.context EXCEPT ![c] = o]
      /\ k.deliver = [w.deliver EXCEPT ![r] = l]
      /\ k.owed = [w.owed EXCEPT ![c] = 0]
  BY DEF KernelState
<1> HIDE DEF k
<1>8. /\ k.context[c] = o /\ k.owed[c] = 0 /\ k.deliver[r] = l
      /\ \A d \in Context \ {c} : k.context[d] = w.context[d] /\ k.owed[d] = w.owed[d]
      /\ \A q \in Receiver \ {r} : k.deliver[q] = w.deliver[q]
  BY <1>1, <1>3, <1>7
<1>9. DestructChanges(w, k, c)
  BY <1>4, <1>7, <1>8 DEF DestructChanges, r, o
<1>10. k = Destructed(w, c)
  BY DEF k, r, o, l, h, Destructed
<1>11. QED BY <1>6, <1>9, <1>10

\* ~Signal_context: a killer that waits for the context is woken up.
LEMMA DeleteContextStep ==
  ASSUME SignalInv, NEW c \in Context, DeleteContext(c)
  PROVE  \E k : /\ Becomes(k) /\ GoodCall(k)
                /\ KillersWoken(Kernel) /\ ~DestructsKilled => KillersWoken(k)
<1> DEFINE t == context[c].killer
           w == IF t = None THEN Kernel ELSE Wake(Kernel, t, "AWAITS_SIGNAL_CONTEXT_KILL")
           k == DestructContext(Kernel, c)
<1>1. Becomes(k) /\ context[c].exists /\ (t # None => DestructsKilled)
  BY DEF DeleteContext
<1>2. /\ Kernel \in KernelState /\ context \in [Context -> ContextObject]
      /\ thread \in [Thread -> ThreadObject] /\ t \in Thread \cup {None}
  BY KernelFields DEF SignalInv, Sound, KernelState, ContextObject
<1>3. t # None => /\ t \in Thread /\ thread[t].state = "AWAITS_SIGNAL_CONTEXT_KILL"
                  /\ thread[t].kills = c /\ thread[t].receiver = None
  BY <1>2, KernelFields DEF SignalInv, Sound, KillersKnown, HandlersInQueue
<1>4. k = Destructed(w, c)
  BY KernelFields DEF DestructContext, Destructed
<1> HIDE DEF t, k
<1>5. /\ w \in KernelState
      /\ w.context = context /\ w.handlers = handlers /\ w.deliver = deliver /\ w.panic = panic
      /\ w.unacked = unacked /\ w.owed = owed /\ w.event = {}
      /\ \A u \in Thread \ {t} : w.thread[u] = thread[u]
      /\ t # None => w.thread[t].state = "ACTIVE" /\ w.thread[t].receiver = None
      /\ t = None => w.thread = thread
  <2>1. CASE t = None
    BY <1>2, <2>1, KernelFields
  <2>2. CASE t # None
    <3>1. t \in Thread /\ Kernel.thread[t].state = "AWAITS_SIGNAL_CONTEXT_KILL"
      BY <1>3, <2>2, KernelFields
    <3>2. w \in KernelState /\ WokenUp(Kernel, w, t)
      BY <1>2, <2>2, <3>1, WakeProps
    <3> HIDE DEF w
    <3>3. /\ w.thread = [thread EXCEPT ![t] = [@ EXCEPT !.state = "ACTIVE"]]
          /\ w.context = context /\ w.handlers = handlers /\ w.deliver = deliver /\ w.panic = panic
          /\ w.unacked = unacked /\ w.owed = owed /\ w.event = {}
      BY <3>2, KernelFields DEF WokenUp
    <3>4. w.thread[t] = [thread[t] EXCEPT !.state = "ACTIVE"] /\ thread[t] \in ThreadObject
      BY <1>2, <3>1, <3>3
    <3>5. w.thread[t].state = "ACTIVE" /\ w.thread[t].receiver = None
      BY <1>3, <2>2, <3>4 DEF ThreadObject
    <3>6. \A u \in Thread \ {t} : w.thread[u] = thread[u]
      BY <1>2, <3>3
    <3>7. QED BY <2>2, <3>2, <3>3, <3>5, <3>6
  <2>3. QED BY <2>1, <2>2
<1> HIDE DEF w
<1>6. \A r \in Receiver : Distinct(w.deliver[r])
  BY <1>5, KernelFields DEF SignalInv, Sound, ContextsInQueue
<1>7. /\ k \in KernelState
      /\ k.thread = w.thread /\ k.handlers = handlers /\ k.panic = panic
      /\ k.event = {} /\ k.unacked = unacked \ {c}
      /\ k.context[c] = NewContextObject(FALSE) /\ k.owed[c] = 0
      /\ \A d \in Context \ {c} : k.context[d] = context[d] /\ k.owed[d] = owed[d]
      /\ \A r \in Receiver \ {receiver[c]} : k.deliver[r] = deliver[r]
      /\ Distinct(k.deliver[receiver[c]])
      /\ Elems(k.deliver[receiver[c]]) = Elems(deliver[receiver[c]]) \ {c}
  <2>1. k \in KernelState /\ DestructChanges(w, k, c)
    BY <1>4, <1>5, <1>6, DestructProps
  <2>2. QED BY <1>5, <2>1 DEF DestructChanges
<1>8. /\ ~k.context[c].exists /\ k.context[c].submits = 0 /\ k.context[c].ack
      /\ k.context[c].killer = None
  BY <1>7, NewContextProps
<1>9. HandlersInQueue(k) /\ ~k.panic
  <2>1. HandlersInQueue(Kernel) /\ ~panic
    BY KernelFields DEF SignalInv, Sound
  <2>2. \A r \in Receiver : Distinct(k.handlers[r])
    BY <1>7, <2>1, KernelFields DEF HandlersInQueue
  <2>3. ASSUME NEW u \in Thread
        PROVE  /\ k.thread[u].state = "AWAITS_SIGNAL" <=> k.thread[u].receiver # None
               /\ \A r \in Receiver : u \in Elems(k.handlers[r]) <=> k.thread[u].receiver = r
    <3>1. CASE u # t
      BY <1>5, <1>7, <2>1, <3>1, KernelFields DEF HandlersInQueue
    <3>2. CASE u = t
      <4>1. t # None /\ \A r \in Receiver : r # None
        BY <3>2, SignalAssumption
      <4>2. \A r \in Receiver : u \notin Elems(handlers[r])
        BY <1>3, <2>1, <3>2, <4>1, KernelFields DEF HandlersInQueue
      <4>3. QED BY <1>5, <1>7, <3>2, <4>1, <4>2
    <3>3. QED BY <3>1, <3>2
  <2>4. QED BY <1>7, <2>1, <2>2, <2>3 DEF HandlersInQueue
<1>10. ContextsInQueue(k)
  <2>1. ContextsInQueue(Kernel)
    BY DEF SignalInv, Sound
  <2>2. \A r \in Receiver : Distinct(k.deliver[r])
    BY <1>7, <2>1, KernelFields DEF ContextsInQueue
  <2>3. \A r \in Receiver, d \in Context \ {c} : d \in Elems(k.deliver[r]) <=> d \in Elems(deliver[r])
    BY <1>7
  <2>4. \A r \in Receiver : c \notin Elems(k.deliver[r])
    BY <1>7, <2>1, KernelFields DEF ContextsInQueue
  <2>5. ASSUME NEW r \in Receiver, NEW d \in Context
        PROVE  d \in Elems(k.deliver[r]) <=>
                 receiver[d] = r /\ k.context[d].submits > 0 /\ k.context[d].ack
    <3>1. CASE d = c
      BY <1>8, <2>4, <3>1
    <3>2. CASE d # c
      <4>1. k.context[d] = context[d]
        BY <1>7, <3>2
      <4>2. QED BY <2>1, <2>3, <3>2, <4>1, KernelFields DEF ContextsInQueue
    <3>3. QED BY <3>1, <3>2
  <2>6. QED BY <2>2, <2>5 DEF ContextsInQueue
<1>11. ContextsSound(k)
  <2>1. ContextsSound(Kernel)
    BY DEF SignalInv, Sound
  <2>2. SUFFICES ASSUME NEW d \in Context
                 PROVE  /\ ~k.context[d].exists => k.context[d].submits = 0 /\ k.context[d].killer = None
                        /\ k.context[d].submits = k.owed[d]
                        /\ d \in k.unacked => k.context[d].exists /\ ~k.context[d].ack
                        /\ k.context[d].exists /\ ~k.context[d].ack /\ ~k.context[d].killed => d \in k.unacked
    BY DEF ContextsSound
  <2>3. CASE d = c
    BY <1>7, <1>8, <2>3
  <2>4. CASE d # c
    BY <1>7, <2>1, <2>4, KernelFields DEF ContextsSound
  <2>5. QED BY <2>3, <2>4
<1>12. KillersKnown(k)
  <2>1. \A d \in Context \ {c} : context[d].killer # None => context[d].killer # t
    BY <1>3, KernelFields DEF SignalInv, Sound, KillersKnown
  <2>2. \A d \in Context : context[d].killer \in Thread \cup {None}
    BY <1>2 DEF ContextObject
  <2>3. SUFFICES ASSUME NEW d \in Context, k.context[d].killer # None
                 PROVE  /\ k.context[d].killed
                        /\ k.thread[k.context[d].killer].state = "AWAITS_SIGNAL_CONTEXT_KILL"
                        /\ k.thread[k.context[d].killer].kills = d
    BY DEF KillersKnown
  <2>4. d # c /\ k.context[d] = context[d]
    BY <1>7, <1>8, <2>3
  <2>5. k.thread[context[d].killer] = thread[context[d].killer]
    BY <1>5, <1>7, <2>1, <2>2, <2>3, <2>4
  <2>6. QED BY <2>3, <2>4, <2>5, KernelFields DEF SignalInv, Sound, KillersKnown
<1>13. KillersWoken(Kernel) /\ ~DestructsKilled => KillersWoken(k)
  <2>1. SUFFICES ASSUME KillersWoken(Kernel), ~DestructsKilled PROVE KillersWoken(k)
    OBVIOUS
  <2>2. t = None /\ k.thread = thread
    BY <1>1, <1>5, <1>7, <2>1
  <2>3. \A u \in Thread : u # None
    BY SignalAssumption
  <2>4. QED BY <1>7, <2>1, <2>2, <2>3, KernelFields DEF KillersWoken, t
<1>14. Sound(k)
  BY <1>7, <1>9, <1>10, <1>11, <1>12 DEF Sound
<1>15. \A r \in Receiver : Served(k, r)
  <2>1. SUFFICES ASSUME NEW r \in Receiver, handlers[r] # <<>> PROVE k.deliver[r] = <<>>
    BY <1>7 DEF Served
  <2>2. deliver[r] = <<>>
    BY <2>1, KernelFields DEF SignalInv, Served
  <2>3. CASE r # receiver[c]
    BY <1>7, <2>2, <2>3
  <2>4. CASE r = receiver[c]
    <3>1. Elems(k.deliver[r]) = {}
      BY <1>7, <2>2, <2>4, EmptyElems
    <3>2. k.deliver[r] \in Seq(Context)
      BY <1>7 DEF KernelState
    <3>3. QED BY <3>1, <3>2, HeadElem
  <2>5. QED BY <2>3, <2>4
<1>16. GoodCall(k)
  BY <1>7, <1>14, <1>15 DEF GoodCall, KillsReported, DeliveriesInOrder
<1>17. QED BY <1>1, <1>13, <1>16

---------------------------------------------------------------------------
(***************************************************************************)
(* Calls that change the state of one thread                               *)
(***************************************************************************)

\* Contexts and the other threads are as before; thread t is queued where it
\* says and is still waiting for the contexts that refer to it as killer.
OnlyThread(k, m, t) ==
  /\ m \in KernelState /\ ~m.panic
  /\ m.context = k.context /\ m.deliver = k.deliver /\ m.owed = k.owed /\ m.unacked = k.unacked
  /\ \A u \in Thread \ {t} : m.thread[u] = k.thread[u]
  /\ \A r \in Receiver : Distinct(m.handlers[r])
  /\ \A r \in Receiver, u \in Thread \ {t} : u \in Elems(m.handlers[r]) <=> u \in Elems(k.handlers[r])
  /\ m.thread[t].state = "AWAITS_SIGNAL" <=> m.thread[t].receiver # None
  /\ \A r \in Receiver : t \in Elems(m.handlers[r]) <=> m.thread[t].receiver = r
  /\ \A c \in Context : k.context[c].killer = t =>
       m.thread[t].state = "AWAITS_SIGNAL_CONTEXT_KILL" /\ m.thread[t].kills = c

\* Such a call keeps the kernel state sound.
LEMMA OnlyThreadSound ==
  ASSUME NEW k, Sound(k), NEW m, NEW t \in Thread, OnlyThread(k, m, t)
  PROVE  Sound(m)
<1>1. HandlersInQueue(m)
  <2>1. ASSUME NEW u \in Thread
        PROVE  /\ m.thread[u].state = "AWAITS_SIGNAL" <=> m.thread[u].receiver # None
               /\ \A r \in Receiver : u \in Elems(m.handlers[r]) <=> m.thread[u].receiver = r
    <3>1. CASE u = t
      BY <3>1 DEF OnlyThread
    <3>2. CASE u # t
      BY <3>2 DEF OnlyThread, Sound, HandlersInQueue
    <3>3. QED BY <3>1, <3>2
  <2>2. QED BY <2>1 DEF OnlyThread, HandlersInQueue
<1>2. ContextsInQueue(m) /\ ContextsSound(m)
  BY DEF OnlyThread, Sound, ContextsInQueue, ContextsSound
<1>3. KillersKnown(m)
  <2>1. SUFFICES ASSUME NEW c \in Context, k.context[c].killer # None
                 PROVE  /\ k.context[c].killed
                        /\ m.thread[k.context[c].killer].state = "AWAITS_SIGNAL_CONTEXT_KILL"
                        /\ m.thread[k.context[c].killer].kills = c
    BY DEF OnlyThread, KillersKnown
  <2>2. k.context[c].killer \in Thread
    BY <2>1 DEF Sound, KernelState, ContextObject
  <2>3. CASE k.context[c].killer = t
    BY <2>1, <2>3 DEF OnlyThread, Sound, KillersKnown
  <2>4. CASE k.context[c].killer # t
    BY <2>1, <2>2, <2>4 DEF OnlyThread, Sound, KillersKnown
  <2>5. QED BY <2>3, <2>4
<1>4. QED BY <1>1, <1>2, <1>3 DEF OnlyThread, Sound

\* A thread that was no killer and is none afterwards concerns no other killer.
LEMMA OnlyThreadWoken ==
  ASSUME NEW k, NEW m, NEW t \in Thread, OnlyThread(k, m, t),
         m.thread[t].kills = None \/ m.thread[t].kills = k.thread[t].kills,
         k.thread[t].state # "AWAITS_SIGNAL_CONTEXT_KILL",
         m.thread[t].state # "AWAITS_SIGNAL_CONTEXT_KILL",
         KillersWoken(k)
  PROVE  KillersWoken(m)
<1>1. SUFFICES ASSUME NEW u \in Thread
               PROVE  IF m.thread[u].state = "AWAITS_SIGNAL_CONTEXT_KILL"
                      THEN /\ m.thread[u].kills \in Context
                           /\ m.context[m.thread[u].kills].killer = u
                           /\ m.thread[u].kills \in m.unacked
                      ELSE m.thread[u].kills = None
  BY DEF KillersWoken
<1>2. CASE u = t
  BY <1>2 DEF KillersWoken
<1>3. CASE u # t
  BY <1>3 DEF OnlyThread, KillersWoken
<1>4. QED BY <1>2, <1>3

\* Constructing a thread object
LEMMA NewThreadProps ==
  ASSUME NEW s \in {"ABSENT", "ACTIVE"}
  PROVE  LET o == NewThreadObject(s)
         IN  o \in ThreadObject /\ o.state = s /\ o.receiver = None /\ o.kills = None
  BY DEF NewThreadObject, ThreadObject

\* A thread that is not in the state of waiting for a kill is nobody's killer.
LEMMA NoKiller ==
  ASSUME NEW k, Sound(k), NEW t \in Thread, k.thread[t].state # "AWAITS_SIGNAL_CONTEXT_KILL"
  PROVE  \A c \in Context : k.context[c].killer # t
  BY SignalAssumption DEF Sound, KillersKnown

\* Writing one thread object of the kernel state
LEMMA ThreadWritten ==
  ASSUME NEW k \in KernelState, NEW t \in Thread, NEW o \in ThreadObject
  PROVE  LET m == [k EXCEPT !.thread[t] = o]
         IN  /\ m \in KernelState
             /\ m.thread[t] = o /\ \A u \in Thread \ {t} : m.thread[u] = k.thread[u]
             /\ m.context = k.context /\ m.handlers = k.handlers /\ m.deliver = k.deliver
             /\ m.panic = k.panic /\ m.unacked = k.unacked /\ m.owed = k.owed /\ m.event = k.event
<1> DEFINE m == [k EXCEPT !.thread[t] = o]
<1>1. k.thread \in [Thread -> ThreadObject]
  BY DEF KernelState
<1>2. [k.thread EXCEPT ![t] = o] \in [Thread -> ThreadObject]
  BY <1>1
<1>3. m \in KernelState
  BY <1>2 DEF KernelState
<1>4. /\ m.thread = [k.thread EXCEPT ![t] = o]
      /\ m.context = k.context /\ m.handlers = k.handlers /\ m.deliver = k.deliver
      /\ m.panic = k.panic /\ m.unacked = k.unacked /\ m.owed = k.owed /\ m.event = k.event
  BY DEF KernelState
<1> HIDE DEF m
<1>5. m.thread[t] = o /\ \A u \in Thread \ {t} : m.thread[u] = k.thread[u]
  BY <1>1, <1>4
<1>6. QED BY <1>3, <1>4, <1>5 DEF m

\* A call that only writes a member of a thread that has nothing to do with its
\* waiting
LEMMA CancelFlagWritten ==
  ASSUME SignalInv, NEW t \in Thread, NEW b \in BOOLEAN
  PROVE  LET k == [Kernel EXCEPT !.thread[t].cancel = b]
         IN  GoodCall(k) /\ (KillersWoken(Kernel) => KillersWoken(k))
<1> DEFINE o == [thread[t] EXCEPT !.cancel = b]
           k == [Kernel EXCEPT !.thread[t] = o]
<1>1. Kernel \in KernelState /\ thread \in [Thread -> ThreadObject] /\ Sound(Kernel) /\ ~panic
  BY KernelFields DEF SignalInv, Sound, KernelState
<1>2. k = [Kernel EXCEPT !.thread[t].cancel = b]
  BY KernelFields
<1>3. /\ o \in ThreadObject /\ o.state = thread[t].state /\ o.receiver = thread[t].receiver
      /\ o.kills = thread[t].kills
  BY <1>1 DEF ThreadObject
<1> HIDE DEF o
<1>4. /\ k \in KernelState
      /\ k.thread[t] = o /\ \A u \in Thread \ {t} : k.thread[u] = thread[u]
      /\ k.context = context /\ k.handlers = handlers /\ k.deliver = deliver
      /\ k.panic = panic /\ k.unacked = unacked /\ k.owed = owed /\ k.event = {}
  BY <1>1, <1>3, ThreadWritten, KernelFields
<1> HIDE DEF k
<1>5. HandlersInQueue(Kernel) /\ KillersKnown(Kernel) /\ \A u \in Thread : u # None
  BY <1>1, SignalAssumption DEF Sound
<1>6. OnlyThread(Kernel, k, t)
  BY <1>1, <1>3, <1>4, <1>5, KernelFields DEF OnlyThread, HandlersInQueue, KillersKnown
<1>7. Sound(k)
  BY <1>1, <1>6, OnlyThreadSound
<1>8. KillersWoken(Kernel) => KillersWoken(k)
  <2>1. \A u \in Thread : k.thread[u].state = thread[u].state /\ k.thread[u].kills = thread[u].kills
    BY <1>3, <1>4
  <2>2. QED BY <1>4, <2>1, KernelFields DEF KillersWoken
<1>9. GoodCall(k)
  BY <1>4, <1>7, KernelFields DEF SignalInv, Served, GoodCall, KillsReported, DeliveriesInOrder
<1>10. QED BY <1>2, <1>8, <1>9

\* Constructing a thread
LEMMA NewThreadStep ==
  ASSUME SignalInv, NEW t \in Thread, NewThread(t)
  PROVE  \E k : Becomes(k) /\ GoodCall(k) /\ (KillersWoken(Kernel) => KillersWoken(k))
<1> DEFINE o == NewThreadObject("ACTIVE")
           k == [Kernel EXCEPT !.thread[t] = o]
<1>1. thread[t].state = "ABSENT" /\ Becomes(k)
  BY DEF NewThread
<1>2. Kernel \in KernelState /\ Sound(Kernel) /\ ~panic
  BY KernelFields DEF SignalInv, Sound
<1>3. o \in ThreadObject /\ o.state = "ACTIVE" /\ o.receiver = None /\ o.kills = None
  BY NewThreadProps
<1> HIDE DEF o
<1>4. /\ k \in KernelState
      /\ k.thread[t] = o /\ \A u \in Thread \ {t} : k.thread[u] = thread[u]
      /\ k.context = context /\ k.handlers = handlers /\ k.deliver = deliver
      /\ k.panic = panic /\ k.unacked = unacked /\ k.owed = owed /\ k.event = {}
  BY <1>2, <1>3, ThreadWritten, KernelFields
<1> HIDE DEF k
<1>5. \A c \in Context : context[c].killer # t
  BY <1>1, <1>2, NoKiller, KernelFields
<1>6. HandlersInQueue(Kernel) /\ \A r \in Receiver : r # None
  BY <1>2, SignalAssumption DEF Sound
<1>7. thread[t].receiver = None
  BY <1>1, <1>6, KernelFields DEF HandlersInQueue
<1>8. OnlyThread(Kernel, k, t)
  BY <1>2, <1>3, <1>4, <1>5, <1>6, <1>7, KernelFields DEF OnlyThread, HandlersInQueue
<1>9. Sound(k)
  BY <1>2, <1>8, OnlyThreadSound
<1>10. KillersWoken(Kernel) => KillersWoken(k)
  BY <1>1, <1>3, <1>4, <1>8, OnlyThreadWoken, KernelFields
<1>11. GoodCall(k)
  BY <1>4, <1>9, KernelFields DEF SignalInv, Served, GoodCall, KillsReported, DeliveriesInOrder
<1>12. QED BY <1>1, <1>10, <1>11

---------------------------------------------------------------------------
(***************************************************************************)
(* Calls that end the waiting of a thread                                  *)
(***************************************************************************)

\* What Signal_handler::cancel_waiting changes
HandlerCancelled(k, m, t) ==
  /\ m.context = k.context /\ m.deliver = k.deliver /\ m.panic = k.panic
  /\ m.unacked = k.unacked /\ m.owed = k.owed /\ m.event = k.event
  /\ \A u \in Thread \ {t} : m.thread[u] = k.thread[u]
  /\ m.thread[t].receiver = None /\ m.thread[t].state = k.thread[t].state
  /\ m.thread[t].kills = k.thread[t].kills
  /\ \A r \in Receiver : /\ Distinct(m.handlers[r])
                         /\ Elems(m.handlers[r]) = Elems(k.handlers[r]) \ {t}

\* The handler leaves the queue it is in, and no other queue holds it.
LEMMA CancelHandlerProps ==
  ASSUME NEW k, Sound(k), NEW t \in Thread
  PROVE  CancelHandler(k, t) \in KernelState /\ HandlerCancelled(k, CancelHandler(k, t), t)
<1>1. /\ k \in KernelState /\ k.thread \in [Thread -> ThreadObject]
      /\ k.handlers \in [Receiver -> Seq(Thread)]
      /\ k.thread[t].receiver \in Receiver \cup {None}
      /\ \A r \in Receiver : r # None
  BY SignalAssumption DEF Sound, KernelState, ThreadObject
<1>2. /\ \A r \in Receiver : Distinct(k.handlers[r])
      /\ \A r \in Receiver : t \in Elems(k.handlers[r]) <=> k.thread[t].receiver = r
  BY DEF Sound, HandlersInQueue
<1>3. CASE k.thread[t].receiver = None
  <2>1. CancelHandler(k, t) = k
    BY <1>3 DEF CancelHandler
  <2>2. \A r \in Receiver : t \notin Elems(k.handlers[r])
    BY <1>1, <1>2, <1>3
  <2>3. QED BY <1>1, <1>2, <1>3, <2>1, <2>2 DEF HandlerCancelled
<1>4. CASE k.thread[t].receiver # None
  <2> DEFINE r == k.thread[t].receiver
             l == Remove(k.handlers[r], t)
             o == [k.thread[t] EXCEPT !.receiver = None]
             m == [k EXCEPT !.handlers[r] = l, !.thread[t].receiver = None]
  <2>1. m = CancelHandler(k, t) /\ r \in Receiver
    BY <1>1, <1>4 DEF CancelHandler
  <2>2. l \in Seq(Thread) /\ Distinct(l) /\ Elems(l) = Elems(k.handlers[r]) \ {t}
    <3>1. k.handlers[r] \in Seq(Thread) /\ Distinct(k.handlers[r])
      BY <1>1, <1>2, <2>1
    <3>2. QED BY <3>1, RemoveProps
  <2>3. /\ o \in ThreadObject /\ o.receiver = None /\ o.state = k.thread[t].state
        /\ o.kills = k.thread[t].kills
    BY <1>1 DEF ThreadObject
  <2>4. \A q \in Receiver \ {r} : t \notin Elems(k.handlers[q])
    BY <1>2
  <2>5. m = [k EXCEPT !.handlers[r] = l, !.thread[t] = o]
    OBVIOUS
  <2> HIDE DEF r, l, o, m
  <2>6. /\ [k.handlers EXCEPT ![r] = l] \in [Receiver -> Seq(Thread)]
        /\ [k.thread EXCEPT ![t] = o] \in [Thread -> ThreadObject]
    BY <1>1, <2>1, <2>2, <2>3
  <2>7. m \in KernelState
    BY <1>1, <2>5, <2>6 DEF KernelState
  <2>8. /\ m.context = k.context /\ m.deliver = k.deliver /\ m.panic = k.panic
        /\ m.unacked = k.unacked /\ m.owed = k.owed /\ m.event = k.event
        /\ m.handlers = [k.handlers EXCEPT ![r] = l] /\ m.thread = [k.thread EXCEPT ![t] = o]
    BY <1>1, <2>5 DEF KernelState
  <2>9. /\ m.thread[t] = o /\ \A u \in Thread \ {t} : m.thread[u] = k.thread[u]
        /\ m.handlers[r] = l /\ \A q \in Receiver \ {r} : m.handlers[q] = k.handlers[q]
    BY <1>1, <2>1, <2>8
  <2>10. ASSUME NEW q \in Receiver
         PROVE  Distinct(m.handlers[q]) /\ Elems(m.handlers[q]) = Elems(k.handlers[q]) \ {t}
    <3>1. CASE q = r
      BY <2>2, <2>9, <3>1
    <3>2. CASE q # r
      BY <1>2, <2>4, <2>9, <3>2
    <3>3. QED BY <3>1, <3>2
  <2>11. HandlerCancelled(k, m, t)
    BY <2>3, <2>8, <2>9, <2>10 DEF HandlerCancelled
  <2>12. QED BY <2>1, <2>7, <2>11
<1>5. QED BY <1>3, <1>4

\* Taking handlers out of the queues keeps every receiver served.
LEMMA FewerHandlersServed ==
  ASSUME NEW k \in KernelState, NEW m \in KernelState, m.deliver = k.deliver, NEW S,
         \A r \in Receiver : Elems(m.handlers[r]) = Elems(k.handlers[r]) \ S
  PROVE  \A r \in Receiver : Served(k, r) => Served(m, r)
<1>1. SUFFICES ASSUME NEW r \in Receiver, k.handlers[r] = <<>> PROVE m.handlers[r] = <<>>
  BY DEF Served
<1>2. Elems(m.handlers[r]) = {}
  BY <1>1, EmptyElems
<1>3. m.handlers[r] \in Seq(Thread)
  BY DEF KernelState
<1>4. QED BY <1>2, <1>3, HeadElem

\* A cancelled handler becomes active.
LEMMA CancelledHandlerWoken ==
  ASSUME NEW k, Sound(k), NEW t \in Thread, k.thread[t].state = "AWAITS_SIGNAL"
  PROVE  LET m == Wake(CancelHandler(k, t), t, "AWAITS_SIGNAL")
         IN  /\ Sound(m) /\ m.event = k.event /\ m.unacked = k.unacked
             /\ \A r \in Receiver : Served(k, r) => Served(m, r)
             /\ KillersWoken(k) => KillersWoken(m)
<1> DEFINE h == CancelHandler(k, t)
           m == Wake(h, t, "AWAITS_SIGNAL")
<1>1. h \in KernelState /\ HandlerCancelled(k, h, t)
  BY CancelHandlerProps
<1>2. h.thread[t].state = "AWAITS_SIGNAL"
  BY <1>1 DEF HandlerCancelled
<1>3. m \in KernelState /\ WokenUp(h, m, t)
  BY <1>1, <1>2, WakeProps
<1> HIDE DEF h, m
<1>4. h.thread \in [Thread -> ThreadObject] /\ h.thread[t] \in ThreadObject
  BY <1>1 DEF KernelState
<1>5. m.thread[t] = [h.thread[t] EXCEPT !.state = "ACTIVE"]
  BY <1>3, <1>4 DEF WokenUp
<1>6. /\ m.thread[t].state = "ACTIVE" /\ m.thread[t].receiver = None
      /\ m.thread[t].kills = k.thread[t].kills
  BY <1>1, <1>4, <1>5 DEF ThreadObject, HandlerCancelled
<1>7. \A u \in Thread \ {t} : m.thread[u] = k.thread[u]
  BY <1>1, <1>3, <1>4 DEF WokenUp, HandlerCancelled
<1>8. /\ m.context = k.context /\ m.deliver = k.deliver /\ m.panic = k.panic
      /\ m.unacked = k.unacked /\ m.owed = k.owed /\ m.event = k.event
      /\ \A r \in Receiver : Distinct(m.handlers[r]) /\ Elems(m.handlers[r]) = Elems(k.handlers[r]) \ {t}
  BY <1>1, <1>3 DEF WokenUp, HandlerCancelled
<1>9. ~k.panic /\ k \in KernelState /\ \A r \in Receiver : r # None
  BY SignalAssumption DEF Sound
<1>10. \A c \in Context : k.context[c].killer # t
  BY NoKiller
<1>11. OnlyThread(k, m, t)
  BY <1>3, <1>6, <1>7, <1>8, <1>9, <1>10 DEF OnlyThread
<1>12. Sound(m)
  BY <1>11, OnlyThreadSound
<1>13. KillersWoken(k) => KillersWoken(m)
  BY <1>6, <1>11, OnlyThreadWoken
<1>14. \A r \in Receiver : Served(k, r) => Served(m, r)
  BY <1>3, <1>8, <1>9, FewerHandlersServed
<1>15. QED BY <1>8, <1>12, <1>13, <1>14 DEF m, h

\* _call_cancel_next_await_signal
LEMMA CancelNextAwaitSignalStep ==
  ASSUME SignalInv, NEW t \in Thread, CancelNextAwaitSignal(t)
  PROVE  \E k : Becomes(k) /\ GoodCall(k) /\ (KillersWoken(Kernel) => KillersWoken(k))
<1>1. CASE thread[t].state = "AWAITS_SIGNAL"
  <2> DEFINE k == Wake(CancelHandler(Kernel, t), t, "AWAITS_SIGNAL")
  <2>1. Becomes(k)
    BY <1>1 DEF CancelNextAwaitSignal
  <2>2. Sound(Kernel) /\ Kernel.thread[t].state = "AWAITS_SIGNAL"
    BY <1>1, KernelFields DEF SignalInv
  <2>3. /\ Sound(k) /\ k.event = {} /\ \A r \in Receiver : Served(Kernel, r) => Served(k, r)
        /\ KillersWoken(Kernel) => KillersWoken(k)
    BY <2>2, CancelledHandlerWoken, KernelFields
  <2> HIDE DEF k
  <2>4. GoodCall(k)
    BY <2>3 DEF SignalInv, GoodCall, KillsReported, DeliveriesInOrder
  <2>5. QED BY <2>1, <2>3, <2>4
<1>2. CASE thread[t].state # "AWAITS_SIGNAL"
  <2> DEFINE k == [Kernel EXCEPT !.thread[t].cancel = TRUE]
  <2>1. Becomes(k)
    BY <1>2 DEF CancelNextAwaitSignal
  <2>2. GoodCall(k) /\ (KillersWoken(Kernel) => KillersWoken(k))
    BY CancelFlagWritten
  <2> HIDE DEF k
  <2>3. QED BY <2>1, <2>2
<1>3. QED BY <1>1, <1>2

\* What Signal_context_killer::cancel_waiting changes
KillerCancelled(k, m, t) ==
  /\ m.thread = k.thread /\ m.handlers = k.handlers /\ m.deliver = k.deliver
  /\ m.panic = k.panic /\ m.unacked = k.unacked /\ m.owed = k.owed /\ m.event = k.event
  /\ m.context = IF k.thread[t].kills = None THEN k.context
                 ELSE [k.context EXCEPT ![k.thread[t].kills] = [@ EXCEPT !.killer = None]]

\* A thread that is cancelled while it kills a context is forgotten by it.
LEMMA CancelKillerProps ==
  ASSUME NEW k \in KernelState, NEW t \in Thread
  PROVE  /\ CancelKiller(k, t) \in KernelState
         /\ KillerCancelled(k, CancelKiller(k, t), t)
<1>1. k.context \in [Context -> ContextObject] /\ k.thread[t].kills \in Context \cup {None}
  BY DEF KernelState, ThreadObject
<1>2. CASE k.thread[t].kills = None
  BY <1>2 DEF CancelKiller, KillerCancelled
<1>3. CASE k.thread[t].kills # None
  <2> DEFINE c == k.thread[t].kills
             o == [k.context[c] EXCEPT !.killer = None]
             m == [k EXCEPT !.context[c].killer = None]
  <2>1. m = CancelKiller(k, t) /\ c \in Context
    BY <1>1, <1>3 DEF CancelKiller
  <2>2. m = [k EXCEPT !.context[c] = o]
    OBVIOUS
  <2>3. o \in ContextObject
    BY <1>1, <2>1 DEF ContextObject
  <2>a. [k.context EXCEPT ![c] = o] = [k.context EXCEPT ![c] = [@ EXCEPT !.killer = None]]
    OBVIOUS
  <2>b. c # None /\ c = k.thread[t].kills
    BY <1>3
  <2> HIDE DEF c, o, m
  <2>4. [k.context EXCEPT ![c] = o] \in [Context -> ContextObject]
    BY <1>1, <2>3
  <2>5. m \in KernelState
    BY <2>2, <2>4 DEF KernelState
  <2>6. /\ m.thread = k.thread /\ m.handlers = k.handlers /\ m.deliver = k.deliver
        /\ m.panic = k.panic /\ m.unacked = k.unacked /\ m.owed = k.owed /\ m.event = k.event
        /\ m.context = [k.context EXCEPT ![c] = o]
    BY <2>2 DEF KernelState
  <2>7. KillerCancelled(k, m, t)
    BY <2>6, <2>a, <2>b DEF KillerCancelled
  <2>8. QED BY <2>1, <2>5, <2>7
<1>4. QED BY <1>2, <1>3

\* The context that the killer refers to loses its killer, whoever that is;
\* afterwards no context refers to the thread.
LEMMA CancelKillerSound ==
  ASSUME NEW k, Sound(k), NEW t \in Thread
  PROVE  LET m == CancelKiller(k, t)
         IN  /\ Sound(m) /\ KillerCancelled(k, m, t)
             /\ \A c \in Context : /\ m.context[c].killer # t
                                   /\ c # k.thread[t].kills => m.context[c] = k.context[c]
<1> DEFINE m == CancelKiller(k, t)
           d == k.thread[t].kills
<1>1. k \in KernelState /\ k.context \in [Context -> ContextObject] /\ d \in Context \cup {None}
  BY DEF Sound, KernelState, ThreadObject
<1>2. m \in KernelState /\ KillerCancelled(k, m, t)
  BY <1>1, CancelKillerProps
<1> HIDE DEF m
<1>3. None \notin Context /\ t # None
  BY SignalAssumption
<1>4. m.context = IF d = None THEN k.context
                  ELSE [k.context EXCEPT ![d] = [@ EXCEPT !.killer = None]]
  BY <1>2 DEF KillerCancelled
<1>5. \A c \in Context : c # d => m.context[c] = k.context[c]
  BY <1>1, <1>3, <1>4
<1>6. d # None => m.context[d] = [k.context[d] EXCEPT !.killer = None] /\ k.context[d] \in ContextObject
  BY <1>1, <1>4
<1> HIDE DEF d
<1>7. \A c \in Context : /\ m.context[c].exists = k.context[c].exists
                         /\ m.context[c].submits = k.context[c].submits
                         /\ m.context[c].ack = k.context[c].ack
                         /\ m.context[c].killed = k.context[c].killed
                         /\ m.context[c].killer = IF c = d THEN None ELSE k.context[c].killer
  BY <1>3, <1>5, <1>6 DEF ContextObject
<1>8. \A c \in Context : m.context[c].killer # t
  BY <1>3, <1>7 DEF Sound, KillersKnown, d
<1>9. /\ m.thread = k.thread /\ m.handlers = k.handlers /\ m.deliver = k.deliver
      /\ m.panic = k.panic /\ m.unacked = k.unacked /\ m.owed = k.owed
  BY <1>2 DEF KillerCancelled
<1>10. HandlersInQueue(m) /\ ContextsInQueue(m) /\ ~m.panic
  BY <1>7, <1>9 DEF Sound, HandlersInQueue, ContextsInQueue
<1>11. ContextsSound(m)
  BY <1>7, <1>9 DEF Sound, ContextsSound
<1>12. KillersKnown(m)
  <2>1. \A c \in Context : m.context[c].killer # None => m.context[c].killer = k.context[c].killer
    BY <1>7
  <2>2. QED BY <1>7, <1>9, <2>1 DEF Sound, KillersKnown
<1>13. Sound(m)
  BY <1>2, <1>10, <1>11, <1>12 DEF Sound
<1>14. QED BY <1>2, <1>5, <1>8, <1>13 DEF m, d

\* Reporting a cancellation changes nothing else.
LEMMA CancelReported ==
  ASSUME SignalInv, NEW t \in Thread
  PROVE  LET k == [Kernel EXCEPT !.event = {<<"cancelled", t>>}]
         IN  /\ Sound(k) /\ \A r \in Receiver : Served(k, r)
             /\ KillersWoken(Kernel) => KillersWoken(k)
             /\ k.thread = thread /\ k.event = {<<"cancelled", t>>}
<1> DEFINE k == [Kernel EXCEPT !.event = {<<"cancelled", t>>}]
<1>1. /\ k.thread = thread /\ k.context = context /\ k.handlers = handlers /\ k.deliver = deliver
      /\ k.panic = panic /\ k.unacked = unacked /\ k.owed = owed /\ k.event = {<<"cancelled", t>>}
  BY DEF Kernel
<1>2. {<<"cancelled", t>>} \in SUBSET ({"delivered", "acked", "killed", "cancelled"} \X (Context \cup Thread))
  OBVIOUS
<1>3. Kernel \in KernelState
  BY DEF SignalInv, Sound
<1>4. k \in KernelState
  BY <1>2, <1>3 DEF KernelState
<1> HIDE DEF k
<1>5. /\ ~k.panic /\ HandlersInQueue(k) /\ ContextsInQueue(k)
      /\ ContextsSound(k) /\ KillersKnown(k)
  BY <1>1, KernelFields DEF SignalInv, Sound, HandlersInQueue, ContextsInQueue, ContextsSound, KillersKnown
<1>6. /\ \A r \in Receiver : Served(k, r)
      /\ KillersWoken(Kernel) => KillersWoken(k)
  BY <1>1, KernelFields DEF SignalInv, Served, KillersWoken
<1>7. Sound(k)
  BY <1>4, <1>5 DEF Sound
<1>8. QED BY <1>1, <1>6, <1>7 DEF k

\* _call_cancel_thread_blocking
LEMMA CancelBlockingStep ==
  ASSUME SignalInv, NEW t \in Thread, CancelBlocking(t)
  PROVE  \E k : /\ Becomes(k) /\ GoodCall(k)
                /\ KillersWoken(Kernel) /\ ~CancelsKillers => KillersWoken(k)
<1> DEFINE j == [Kernel EXCEPT !.event = {<<"cancelled", t>>}]
<1>1. /\ Sound(j) /\ \A r \in Receiver : Served(j, r)
      /\ KillersWoken(Kernel) => KillersWoken(j)
      /\ j.thread = thread /\ j.event = {<<"cancelled", t>>}
  BY CancelReported
<1>2. CASE thread[t].state = "AWAITS_SIGNAL"
  <2> DEFINE k == Wake(CancelHandler(j, t), t, "AWAITS_SIGNAL")
  <2>1. Becomes(k)
    BY <1>2 DEF CancelBlocking
  <2> HIDE DEF j
  <2>2. /\ Sound(k) /\ k.event = j.event /\ \A r \in Receiver : Served(j, r) => Served(k, r)
        /\ KillersWoken(j) => KillersWoken(k)
    BY <1>1, <1>2, CancelledHandlerWoken
  <2> HIDE DEF k
  <2>3. GoodCall(k)
    BY <1>1, <2>2 DEF GoodCall, KillsReported, DeliveriesInOrder
  <2>4. QED BY <1>1, <2>1, <2>2, <2>3
<1>3. CASE thread[t].state # "AWAITS_SIGNAL"
  <2> DEFINE k == CancelKiller(j, t)
  <2>1. Becomes(k) /\ CancelsKillers
    BY <1>3 DEF CancelBlocking
  <2> HIDE DEF j
  <2>2. Sound(k) /\ KillerCancelled(j, k, t)
    BY <1>1, CancelKillerSound
  <2> HIDE DEF k
  <2>3. GoodCall(k)
    BY <1>1, <2>2 DEF GoodCall, KillerCancelled, Served, KillsReported, DeliveriesInOrder
  <2>4. QED BY <2>1, <2>3
<1>4. QED BY <1>2, <1>3

\* Destructing a thread: it leaves its queue, and the context whose kill it
\* waits for forgets it.
LEMMA DeleteThreadStep ==
  ASSUME SignalInv, NEW t \in Thread, DeleteThread(t)
  PROVE  \E k : Becomes(k) /\ GoodCall(k) /\ (KillersWoken(Kernel) => KillersWoken(k))
<1> DEFINE h == CancelHandler(Kernel, t)
           j == CancelKiller(h, t)
           i == CancelKiller(Kernel, t)
           o == NewThreadObject("ABSENT")
           q == [j EXCEPT !.thread[t] = o]
           k == [j EXCEPT !.thread[t] = o, !.handles[t] = None]
<1>1. Becomes(k)
  BY DEF DeleteThread
<1>2. Kernel \in KernelState /\ Sound(Kernel) /\ ~panic
  BY KernelFields DEF SignalInv, Sound
<1>3. h \in KernelState /\ HandlerCancelled(Kernel, h, t)
  BY <1>2, CancelHandlerProps
<1> HIDE DEF h
<1>4. j \in KernelState /\ KillerCancelled(h, j, t)
  BY <1>3, CancelKillerProps
<1> HIDE DEF j
<1>5. /\ Sound(i) /\ KillerCancelled(Kernel, i, t)
      /\ \A c \in Context : /\ i.context[c].killer # t
                            /\ c # thread[t].kills => i.context[c] = context[c]
  BY <1>2, CancelKillerSound, KernelFields
<1> HIDE DEF i
<1>6. o \in ThreadObject /\ o.state = "ABSENT" /\ o.receiver = None /\ o.kills = None
  BY NewThreadProps
<1> HIDE DEF o
<1>7. /\ k \in KernelState
      /\ k.thread[t] = o /\ \A u \in Thread \ {t} : k.thread[u] = j.thread[u]
      /\ k.context = j.context /\ k.handlers = j.handlers /\ k.deliver = j.deliver
      /\ k.panic = j.panic /\ k.unacked = j.unacked /\ k.owed = j.owed /\ k.event = j.event
  <2>1. /\ q \in KernelState
        /\ q.thread[t] = o /\ \A u \in Thread \ {t} : q.thread[u] = j.thread[u]
        /\ q.context = j.context /\ q.handlers = j.handlers /\ q.deliver = j.deliver
        /\ q.panic = j.panic /\ q.unacked = j.unacked /\ q.owed = j.owed /\ q.event = j.event
    BY <1>4, <1>6, ThreadWritten
  <2>2. k = [q EXCEPT !.handles[t] = None]
    OBVIOUS
  <2> HIDE DEF q, k
  <2>3. [q.handles EXCEPT ![t] = None] \in [Thread -> Context \cup {None}]
    BY <2>1 DEF KernelState
  <2>4. k \in KernelState
    BY <2>1, <2>2, <2>3 DEF KernelState
  <2>5. /\ k.thread = q.thread /\ k.context = q.context /\ k.handlers = q.handlers
        /\ k.deliver = q.deliver /\ k.panic = q.panic /\ k.unacked = q.unacked
        /\ k.owed = q.owed /\ k.event = q.event
    BY <2>1, <2>2 DEF KernelState
  <2>6. QED BY <2>1, <2>4, <2>5
<1> HIDE DEF k
<1>8. h.thread[t].kills = thread[t].kills /\ h.context = context
  BY <1>3, KernelFields DEF HandlerCancelled
<1>9. j.context = i.context
  BY <1>4, <1>5, <1>8, KernelFields DEF KillerCancelled
<1>10. /\ k.deliver = deliver /\ k.panic = panic /\ k.unacked = unacked /\ k.owed = owed
       /\ k.event = {} /\ k.context = i.context
       /\ \A u \in Thread \ {t} : k.thread[u] = thread[u]
       /\ \A r \in Receiver : Distinct(k.handlers[r]) /\ Elems(k.handlers[r]) = Elems(handlers[r]) \ {t}
  BY <1>3, <1>4, <1>7, <1>9, KernelFields DEF HandlerCancelled, KillerCancelled
<1>11. /\ i.deliver = deliver /\ i.unacked = unacked /\ i.owed = owed
       /\ i.thread = thread /\ i.handlers = handlers
  BY <1>5, KernelFields DEF KillerCancelled
<1>12. \A r \in Receiver : r # None
  BY SignalAssumption
<1>13. OnlyThread(i, k, t)
  BY <1>2, <1>5, <1>6, <1>7, <1>10, <1>11, <1>12 DEF OnlyThread
<1>14. Sound(k)
  BY <1>5, <1>13, OnlyThreadSound
<1>15. KillersWoken(Kernel) => KillersWoken(k)
  <2>1. SUFFICES ASSUME KillersWoken(Kernel), NEW u \in Thread
                 PROVE  IF k.thread[u].state = "AWAITS_SIGNAL_CONTEXT_KILL"
                        THEN /\ k.thread[u].kills \in Context
                             /\ k.context[k.thread[u].kills].killer = u
                             /\ k.thread[u].kills \in k.unacked
                        ELSE k.thread[u].kills = None
    BY DEF KillersWoken
  <2>2. CASE u = t
    BY <1>6, <1>7, <2>2
  <2>3. CASE u # t
    <3>1. k.thread[u] = thread[u]
      BY <1>10, <2>3
    <3>2. CASE thread[u].state = "AWAITS_SIGNAL_CONTEXT_KILL"
      <4>1. thread[u].kills \in Context /\ context[thread[u].kills].killer = u /\ thread[u].kills \in unacked
        BY <2>1, <3>2, KernelFields DEF KillersWoken
      <4>2. thread[u].kills # thread[t].kills
        BY <2>1, <2>3, <4>1, KernelFields, SignalAssumption DEF KillersWoken
      <4>3. QED BY <1>5, <1>10, <3>1, <3>2, <4>1, <4>2
    <3>3. CASE thread[u].state # "AWAITS_SIGNAL_CONTEXT_KILL"
      BY <2>1, <3>1, <3>3, KernelFields DEF KillersWoken
    <3>4. QED BY <3>2, <3>3
  <2>4. QED BY <2>2, <2>3
<1>16. \A r \in Receiver : Served(k, r)
  <2>1. k.deliver = Kernel.deliver /\ \A r \in Receiver : Elems(k.handlers[r]) = Elems(Kernel.handlers[r]) \ {t}
    BY <1>10, KernelFields
  <2>2. \A r \in Receiver : Served(Kernel, r) => Served(k, r)
    BY <1>2, <1>7, <2>1, FewerHandlersServed
  <2>3. QED BY <2>2 DEF SignalInv
<1>17. GoodCall(k)
  BY <1>10, <1>14, <1>16 DEF GoodCall, KillsReported, DeliveriesInOrder
<1>18. QED BY <1>1, <1>15, <1>17

---------------------------------------------------------------------------
(***************************************************************************)
(* Waiting for signals, and the receivers                                  *)
(***************************************************************************)

\* Signal_receiver::add_handler: the thread gets queued, and is served at once
\* if there is something to deliver.
LEMMA HandlerAdded ==
  ASSUME SignalInv, NEW t \in Thread, NEW r \in Receiver, thread[t].state = "ACTIVE"
  PROVE  LET k == Listen([Kernel EXCEPT !.handlers[r] = InsertTail(@, t),
                                        !.thread[t].receiver = r,
                                        !.thread[t].state = "AWAITS_SIGNAL"], r)
         IN  GoodCall(k) /\ (KillersWoken(Kernel) => KillersWoken(k))
<1> DEFINE l == InsertTail(handlers[r], t)
           o == [thread[t] EXCEPT !.receiver = r, !.state = "AWAITS_SIGNAL"]
           q == [Kernel EXCEPT !.handlers[r] = InsertTail(@, t),
                               !.thread[t].receiver = r,
                               !.thread[t].state = "AWAITS_SIGNAL"]
           k == Listen(q, r)
<1>1. /\ Kernel \in KernelState /\ Sound(Kernel) /\ HandlersInQueue(Kernel) /\ ~panic
      /\ thread \in [Thread -> ThreadObject] /\ handlers \in [Receiver -> Seq(Thread)]
  BY KernelFields DEF SignalInv, Sound, KernelState
<1>2. r # None /\ \A x \in Receiver : x # None
  BY SignalAssumption
<1>3. thread[t].receiver = None /\ \A x \in Receiver : t \notin Elems(handlers[x])
  BY <1>1, <1>2, KernelFields DEF HandlersInQueue
<1>4. l \in Seq(Thread) /\ Distinct(l) /\ Elems(l) = Elems(handlers[r]) \cup {t}
  <2>1. handlers[r] \in Seq(Thread) /\ Distinct(handlers[r])
    BY <1>1, KernelFields DEF HandlersInQueue
  <2>2. QED BY <1>3, <2>1, InsertTailProps
<1>5. /\ o \in ThreadObject /\ o.receiver = r /\ o.state = "AWAITS_SIGNAL"
      /\ o.kills = thread[t].kills
  BY <1>1 DEF ThreadObject
<1>6. q = [Kernel EXCEPT !.handlers = [Kernel.handlers EXCEPT ![r] = l],
                         !.thread = [Kernel.thread EXCEPT ![t] = o]]
  BY <1>1, KernelFields
<1> HIDE DEF l, o, q
<1>7. /\ q \in KernelState
      /\ q.thread = [thread EXCEPT ![t] = o] /\ q.handlers = [handlers EXCEPT ![r] = l]
      /\ q.context = context /\ q.deliver = deliver /\ q.panic = panic
      /\ q.unacked = unacked /\ q.owed = owed /\ q.event = {}
  <2>1. /\ [Kernel.handlers EXCEPT ![r] = l] \in [Receiver -> Seq(Thread)]
        /\ [Kernel.thread EXCEPT ![t] = o] \in [Thread -> ThreadObject]
    BY <1>1, <1>4, <1>5, KernelFields
  <2>2. q \in KernelState
    BY <1>1, <1>6, <2>1 DEF KernelState
  <2>3. QED BY <1>1, <1>6, <2>2, KernelFields DEF KernelState
<1>8. /\ q.thread[t] = o /\ \A u \in Thread \ {t} : q.thread[u] = thread[u]
      /\ q.handlers[r] = l /\ \A x \in Receiver \ {r} : q.handlers[x] = handlers[x]
  BY <1>1, <1>7
<1>9. \A c \in Context : context[c].killer # t
  BY <1>1, NoKiller, KernelFields
<1>10. OnlyThread(Kernel, q, t)
  <2>1. ASSUME NEW x \in Receiver
        PROVE  /\ Distinct(q.handlers[x])
               /\ \A u \in Thread \ {t} : u \in Elems(q.handlers[x]) <=> u \in Elems(handlers[x])
               /\ t \in Elems(q.handlers[x]) <=> r = x
    <3>1. CASE x = r
      BY <1>4, <1>8, <3>1
    <3>2. CASE x # r
      BY <1>1, <1>3, <1>8, <3>2, KernelFields DEF HandlersInQueue
    <3>3. QED BY <3>1, <3>2
  <2>2. QED BY <1>1, <1>2, <1>5, <1>7, <1>8, <1>9, <2>1, KernelFields DEF OnlyThread
<1>11. Sound(q)
  BY <1>1, <1>10, OnlyThreadSound
<1>12. KillersWoken(Kernel) => KillersWoken(q)
  BY <1>5, <1>8, <1>10, OnlyThreadWoken, KernelFields
<1>13. Sound(k)
  BY <1>11, ListenSound
<1>14. /\ \A x \in Receiver : x = r \/ Served(q, x) => Served(k, x)
       /\ KillersWoken(q) => KillersWoken(k)
       /\ \A c \in Context : <<"delivered", c>> \in k.event => c \notin unacked
       /\ \A c \in Context : <<"killed", c>> \notin k.event
  BY <1>7, <1>11, ListenEffect
<1> HIDE DEF k
<1>15. \A x \in Receiver : Served(k, x)
  <2>1. \A x \in Receiver \ {r} : Served(q, x)
    BY <1>7, <1>8, KernelFields DEF SignalInv, Served
  <2>2. QED BY <1>14, <2>1
<1>16. GoodCall(k)
  BY <1>13, <1>14, <1>15 DEF GoodCall, KillsReported, DeliveriesInOrder
<1>17. QED BY <1>12, <1>14, <1>16 DEF k, q

\* _call_await_signal
LEMMA AwaitSignalStep ==
  ASSUME SignalInv, NEW t \in Thread, NEW r \in Receiver, AwaitSignal(t, r)
  PROVE  \E k : Becomes(k) /\ GoodCall(k) /\ (KillersWoken(Kernel) => KillersWoken(k))
<1>1. CASE thread[t].cancel
  <2> DEFINE k == [Kernel EXCEPT !.thread[t].cancel = FALSE]
  <2>1. Becomes(k)
    BY <1>1 DEF AwaitSignal
  <2>2. GoodCall(k) /\ (KillersWoken(Kernel) => KillersWoken(k))
    BY CancelFlagWritten
  <2> HIDE DEF k
  <2>3. QED BY <2>1, <2>2
<1>2. CASE ~thread[t].cancel /\ (r \notin live \/ thread[t].receiver # None)
  <2>1. Becomes(Kernel)
    BY <1>2 DEF AwaitSignal
  <2>2. QED BY <2>1, NothingDone
<1>3. CASE ~thread[t].cancel /\ ~(r \notin live \/ thread[t].receiver # None)
  <2> DEFINE k == Listen([Kernel EXCEPT !.handlers[r] = InsertTail(@, t),
                                        !.thread[t].receiver = r,
                                        !.thread[t].state = "AWAITS_SIGNAL"], r)
  <2>1. Becomes(k) /\ thread[t].state = "ACTIVE"
    BY <1>3 DEF AwaitSignal
  <2>2. GoodCall(k) /\ (KillersWoken(Kernel) => KillersWoken(k))
    BY <2>1, HandlerAdded
  <2> HIDE DEF k
  <2>3. QED BY <2>1, <2>2
<1>4. QED BY <1>1, <1>2, <1>3

\* ~Signal_receiver: its contexts go with it, and nobody waits for one of them.
LEMMA DeleteReceiverStep ==
  ASSUME SignalInv, NEW r \in Receiver, DeleteReceiver(r)
  PROVE  \E k : Becomes(k) /\ GoodCall(k) /\ (KillersWoken(Kernel) => KillersWoken(k))
<1> DEFINE o == NewContextObject(FALSE)
           co == [c \in Context |-> IF receiver[c] = r THEN o ELSE context[c]]
           ow == [c \in Context |-> IF receiver[c] = r THEN 0 ELSE owed[c]]
           un == { c \in unacked : receiver[c] # r }
           ha == Unhandled(handles, {c \in Context : receiver[c] = r})
           k == [Kernel EXCEPT !.context = co, !.deliver[r] = <<>>, !.handles = ha,
                               !.unacked = un, !.owed = ow]
<1>1. /\ Becomes(k) /\ handlers[r] = <<>>
      /\ \A c \in Context : receiver[c] = r => ~context[c].exists \/ context[c].killer = None
  BY KernelFields DEF DeleteReceiver, Kernel
<1>2. /\ Kernel \in KernelState /\ context \in [Context -> ContextObject] /\ owed \in [Context -> Int]
      /\ unacked \subseteq Context /\ deliver \in [Receiver -> Seq(Context)]
  BY KernelFields DEF SignalInv, Sound, KernelState
<1>3. o \in ContextObject /\ ~o.exists /\ o.submits = 0 /\ o.killer = None
  BY NewContextProps
<1> HIDE DEF o
<1>4. /\ co \in [Context -> ContextObject] /\ ow \in [Context -> Int] /\ un \in SUBSET Context
      /\ \A c \in Context : receiver[c] = r => co[c] = o /\ ow[c] = 0 /\ c \notin un
      /\ \A c \in Context : receiver[c] # r =>
           co[c] = context[c] /\ ow[c] = owed[c] /\ (c \in un <=> c \in unacked)
  BY <1>2, <1>3
<1>a. ha \in [Thread -> Context \cup {None}]
  <2>1. handles \in [Thread -> Context \cup {None}]
    BY <1>2, KernelFields DEF KernelState
  <2>2. QED BY <2>1 DEF Unhandled
<1> HIDE DEF co, ow, un, ha
<1>5. /\ k.thread = thread /\ k.handlers = handlers /\ k.panic = panic /\ k.event = {}
      /\ k.context = co /\ k.owed = ow /\ k.unacked = un /\ k.deliver = [deliver EXCEPT ![r] = <<>>]
  BY DEF Kernel
<1>6. k \in KernelState
  <2>1. [Kernel.deliver EXCEPT ![r] = <<>>] \in [Receiver -> Seq(Context)]
    BY <1>2, KernelFields
  <2>2. QED BY <1>2, <1>4, <1>a, <2>1 DEF KernelState
<1> HIDE DEF k
<1>7. k.deliver[r] = <<>> /\ \A q \in Receiver \ {r} : k.deliver[q] = deliver[q]
  BY <1>2, <1>5
<1>8. HandlersInQueue(k) /\ ~k.panic
  BY <1>5, KernelFields DEF SignalInv, Sound, HandlersInQueue
<1>9. ContextsInQueue(k)
  <2>1. ContextsInQueue(Kernel)
    BY DEF SignalInv, Sound
  <2>2. ASSUME NEW q \in Receiver
        PROVE  /\ Distinct(k.deliver[q])
               /\ \A c \in Context : c \in Elems(k.deliver[q]) <=>
                    receiver[c] = q /\ k.context[c].submits > 0 /\ k.context[c].ack
    <3>1. CASE q = r
      BY <1>3, <1>4, <1>5, <1>7, <3>1, EmptyElems
    <3>2. CASE q # r
      BY <1>4, <1>5, <1>7, <2>1, <3>2, KernelFields DEF ContextsInQueue
    <3>3. QED BY <3>1, <3>2
  <2>3. QED BY <2>2 DEF ContextsInQueue
<1>10. ContextsSound(k)
  <2>1. SUFFICES ASSUME NEW d \in Context
                 PROVE  /\ ~k.context[d].exists => k.context[d].submits = 0 /\ k.context[d].killer = None
                        /\ k.context[d].submits = k.owed[d]
                        /\ d \in k.unacked => k.context[d].exists /\ ~k.context[d].ack
                        /\ k.context[d].exists /\ ~k.context[d].ack /\ ~k.context[d].killed => d \in k.unacked
    BY DEF ContextsSound
  <2>2. CASE receiver[d] = r
    BY <1>3, <1>4, <1>5, <2>2
  <2>3. CASE receiver[d] # r
    BY <1>4, <1>5, <2>3, KernelFields DEF SignalInv, Sound, ContextsSound
  <2>4. QED BY <2>2, <2>3
<1>11. \A c \in Context : k.context[c].killer # None => k.context[c] = context[c]
  BY <1>3, <1>4, <1>5
<1>12. KillersKnown(k)
  BY <1>5, <1>11, KernelFields DEF SignalInv, Sound, KillersKnown
<1>13. KillersWoken(Kernel) => KillersWoken(k)
  <2>1. SUFFICES ASSUME KillersWoken(Kernel), NEW u \in Thread
                 PROVE  IF thread[u].state = "AWAITS_SIGNAL_CONTEXT_KILL"
                        THEN /\ thread[u].kills \in Context
                             /\ k.context[thread[u].kills].killer = u
                             /\ thread[u].kills \in k.unacked
                        ELSE thread[u].kills = None
    BY <1>5 DEF KillersWoken
  <2>2. CASE thread[u].state = "AWAITS_SIGNAL_CONTEXT_KILL"
    <3> DEFINE c == thread[u].kills
    <3>1. c \in Context /\ context[c].killer = u /\ c \in unacked
      BY <2>1, <2>2, KernelFields DEF KillersWoken
    <3>2. context[c].exists /\ u # None
      BY <3>1, KernelFields, SignalAssumption DEF SignalInv, Sound, ContextsSound
    <3>3. receiver[c] # r
      BY <1>1, <3>1, <3>2
    <3>4. QED BY <1>4, <1>5, <2>2, <3>1, <3>3
  <2>3. CASE thread[u].state # "AWAITS_SIGNAL_CONTEXT_KILL"
    BY <2>1, <2>3, KernelFields DEF KillersWoken
  <2>4. QED BY <2>2, <2>3
<1>14. Sound(k)
  BY <1>6, <1>8, <1>9, <1>10, <1>12 DEF Sound
<1>15. \A q \in Receiver : Served(k, q)
  BY <1>1, <1>5, <1>7, KernelFields DEF SignalInv, Served
<1>16. GoodCall(k)
  BY <1>5, <1>14, <1>15 DEF GoodCall, KillsReported, DeliveriesInOrder
<1>17. QED BY <1>1, <1>13, <1>16

---------------------------------------------------------------------------
(***************************************************************************)
(* The inductive invariant and the theorems                                *)
(***************************************************************************)

\* The events of a call are forgotten when the next one starts.
LEMMA EventsForgotten ==
  ASSUME NEW k, Sound(k), NEW m,
         m = [ thread |-> k.thread, context |-> k.context, handlers |-> k.handlers,
               deliver |-> k.deliver, panic |-> k.panic, handles |-> k.handles,
               unacked |-> k.unacked, owed |-> k.owed, event |-> {} ]
  PROVE  /\ Sound(m)
         /\ \A r \in Receiver : Served(k, r) => Served(m, r)
         /\ KillersWoken(k) => KillersWoken(m)
<1>1. /\ m.thread = k.thread /\ m.context = k.context /\ m.handlers = k.handlers
      /\ m.deliver = k.deliver /\ m.panic = k.panic /\ m.unacked = k.unacked
      /\ m.owed = k.owed /\ m.event = {}
  OBVIOUS
<1>2. k \in KernelState
  BY DEF Sound
<1>3. m \in KernelState
  BY <1>2 DEF KernelState
<1>4. /\ ~m.panic /\ HandlersInQueue(m) /\ ContextsInQueue(m)
      /\ ContextsSound(m) /\ KillersKnown(m)
  BY <1>1 DEF Sound, HandlersInQueue, ContextsInQueue, ContextsSound, KillersKnown
<1>5. QED BY <1>1, <1>3, <1>4 DEF Sound, Served, KillersWoken

\* The state after a call
LEMMA CallDone ==
  ASSUME NEW k, Becomes(k), GoodCall(k), live' \subseteq Receiver
  PROVE  SignalInv' /\ (KillersWoken(k) => KillersWoken(Kernel)')
<1>1. Kernel' = [ thread |-> k.thread, context |-> k.context, handlers |-> k.handlers,
                  deliver |-> k.deliver, panic |-> k.panic, handles |-> k.handles,
                  unacked |-> k.unacked, owed |-> k.owed, event |-> {} ]
  BY DEF Becomes, Kernel
<1>2. /\ Sound(Kernel') /\ \A r \in Receiver : Served(Kernel', r)
      /\ KillersWoken(k) => KillersWoken(Kernel')
  BY <1>1, EventsForgotten DEF GoodCall
<1>3. /\ event' \subseteq ({"delivered", "acked", "killed", "cancelled"} \X (Context \cup Thread))
      /\ \A c \in Context : <<"killed", c>> \in event' => c \notin unacked'
  BY DEF Becomes, GoodCall, Sound, KernelState, KillsReported
<1>4. QED BY <1>2, <1>3 DEF SignalInv

\* A state in which nothing exists
LEMMA InitSound == Init => SignalInv /\ KillersWoken(Kernel)
<1>1. SUFFICES ASSUME Init PROVE SignalInv /\ KillersWoken(Kernel)
  OBVIOUS
<1>2. NewThreadObject("ABSENT") \in ThreadObject /\ NewContextObject(FALSE) \in ContextObject
  BY NewThreadProps, NewContextProps
<1>3. /\ \A t \in Thread : /\ thread[t].state = "ABSENT" /\ thread[t].receiver = None
                           /\ thread[t].kills = None
      /\ \A c \in Context : /\ ~context[c].exists /\ context[c].submits = 0
                            /\ context[c].killer = None
  BY <1>1, NewThreadProps, NewContextProps DEF Init
<1>4. /\ thread \in [Thread -> ThreadObject] /\ context \in [Context -> ContextObject]
      /\ handlers \in [Receiver -> Seq(Thread)] /\ deliver \in [Receiver -> Seq(Context)]
      /\ panic = FALSE /\ unacked = {} /\ owed \in [Context -> Int]
      /\ handles \in [Thread -> Context \cup {None}]
      /\ \A c \in Context : owed[c] = 0
      /\ \A r \in Receiver : handlers[r] = <<>> /\ deliver[r] = <<>>
  <2>1. /\ thread \in [Thread -> ThreadObject] /\ context \in [Context -> ContextObject]
        /\ panic = FALSE /\ unacked = {} /\ handles \in [Thread -> Context \cup {None}]
    BY <1>1, <1>2 DEF Init
  <2>2. /\ owed \in [Context -> Int] /\ \A c \in Context : owed[c] = 0
    BY <1>1 DEF Init
  <2>3. /\ handlers \in [Receiver -> Seq(Thread)] /\ \A r \in Receiver : handlers[r] = <<>>
    BY <1>1 DEF Init
  <2>4. /\ deliver \in [Receiver -> Seq(Context)] /\ \A r \in Receiver : deliver[r] = <<>>
    BY <1>1 DEF Init
  <2>5. QED BY <2>1, <2>2, <2>3, <2>4
<1>5. Kernel \in KernelState
  BY <1>4 DEF Kernel, KernelState
<1>6. HandlersInQueue(Kernel) /\ ContextsInQueue(Kernel)
  BY <1>3, <1>4, EmptyElems, KernelFields, SignalAssumption DEF HandlersInQueue, ContextsInQueue
<1>7. ContextsSound(Kernel) /\ KillersKnown(Kernel) /\ KillersWoken(Kernel)
  BY <1>3, <1>4, KernelFields DEF ContextsSound, KillersKnown, KillersWoken
<1>8. Sound(Kernel) /\ \A r \in Receiver : Served(Kernel, r)
  BY <1>4, <1>5, <1>6, <1>7, KernelFields DEF Sound, Served
<1>9. QED BY <1>1, <1>7, <1>8 DEF SignalInv, Init

\* Every step is a call that leaves a sound kernel.
LEMMA NextIsGoodCall ==
  ASSUME SignalInv, Next
  PROVE  /\ live' \subseteq Receiver
         /\ \E k : /\ Becomes(k) /\ GoodCall(k)
                   /\ KillersWoken(Kernel) /\ ~CancelsKillers /\ ~DestructsKilled => KillersWoken(k)
<1>1. live \subseteq Receiver
  BY DEF SignalInv
<1>2. CASE UNCHANGED live /\ \E c \in Context : ContextStep(c)
  <2>1. PICK c \in Context : ContextStep(c)
    BY <1>2
  <2>2. CASE \E n \in Num : Submit(c, n)
    BY <1>1, <1>2, <2>2, SubmitStep
  <2>3. CASE \E t \in Thread : Ack(t, c)
    BY <1>1, <1>2, <2>3, AckStep
  <2>4. CASE \E t \in Thread : Kill(t, c)
    BY <1>1, <1>2, <2>4, KillStep
  <2>5. CASE NewContext(c)
    BY <1>1, <1>2, <2>5, NewContextStep
  <2>6. CASE DeleteContext(c)
    BY <1>1, <1>2, <2>6, DeleteContextStep
  <2>7. QED BY <2>1, <2>2, <2>3, <2>4, <2>5, <2>6 DEF ContextStep
<1>3. CASE UNCHANGED live /\ \E t \in Thread : ThreadStep(t)
  <2>1. PICK t \in Thread : ThreadStep(t)
    BY <1>3
  <2>2. CASE \E r \in Receiver : AwaitSignal(t, r)
    BY <1>1, <1>3, <2>2, AwaitSignalStep
  <2>3. CASE CancelNextAwaitSignal(t)
    BY <1>1, <1>3, <2>3, CancelNextAwaitSignalStep
  <2>4. CASE CancelBlocking(t)
    BY <1>1, <1>3, <2>4, CancelBlockingStep
  <2>5. CASE NewThread(t)
    BY <1>1, <1>3, <2>5, NewThreadStep
  <2>6. CASE DeleteThread(t)
    BY <1>1, <1>3, <2>6, DeleteThreadStep
  <2>7. QED BY <2>1, <2>2, <2>3, <2>4, <2>5, <2>6 DEF ThreadStep
<1>4. ASSUME NEW r \in Receiver, NewReceiver(r) \/ DeleteReceiver(r)
      PROVE  /\ live' \subseteq Receiver
             /\ \E k : /\ Becomes(k) /\ GoodCall(k)
                       /\ KillersWoken(Kernel) /\ ~CancelsKillers /\ ~DestructsKilled => KillersWoken(k)
  <2>1. CASE NewReceiver(r)
    BY <1>1, <2>1, NothingDone DEF NewReceiver
  <2>2. CASE DeleteReceiver(r)
    <3>1. live' \subseteq Receiver
      BY <1>1, <2>2 DEF DeleteReceiver
    <3>2. QED BY <2>2, <3>1, DeleteReceiverStep
  <2>3. QED BY <1>4, <2>1, <2>2
<1>5. QED BY <1>2, <1>3, <1>4 DEF Next

\* Every step preserves the inductive invariant.
LEMMA SignalInvStep ==
  ASSUME SignalInv, [Next]_vars
  PROVE  SignalInv'
<1>1. CASE Next
  BY <1>1, NextIsGoodCall, CallDone
<1>2. CASE UNCHANGED vars
  <2>1. Kernel' = Kernel /\ live' = live /\ event' = event /\ unacked' = unacked
    BY <1>2 DEF vars, Kernel
  <2>2. QED BY <2>1 DEF SignalInv
<1>3. QED BY <1>1, <1>2

\* The inductive invariant holds in every reachable state.
LEMMA SignalInvAlways == Spec => []SignalInv
<1>1. Init => SignalInv
  BY InitSound
<1>2. SignalInv /\ [Next]_vars => SignalInv'
  BY SignalInvStep
<1>3. QED BY <1>1, <1>2, PTL DEF Spec

\* Every variable of the signalling objects keeps the type it has in the C++
\* code, in particular the submit counter stays within its width.
THEOREM TypeCorrect == Spec => []TypeOK
<1>1. SignalInv => TypeOK
  BY KernelFields DEF SignalInv, Sound, KernelState, TypeOK
<1>2. QED BY <1>1, SignalInvAlways, PTL

\* No assertion of Thread::_receive_signal, _signal_context_kill_done and
\* _signal_context_kill_failed fails: whoever the kernel wakes up is in the
\* state that the waker expects, for any number of threads, contexts and
\* receivers and whatever core cancels or destructs.
THEOREM NeverPanics == Spec => []NoPanic
<1>1. SignalInv => NoPanic
  BY KernelFields DEF SignalInv, Sound, NoPanic
<1>2. QED BY <1>1, SignalInvAlways, PTL

\* Signal_receiver::_deliver holds exactly the contexts that have something to
\* deliver, and no handler waits next to one: _listen overlooks nothing.
THEOREM NoSignalOverlooked == Spec => []DeliverableQueued
<1>1. SignalInv => DeliverableQueued
  <2>1. SUFFICES ASSUME SignalInv, NEW r \in Receiver
                 PROVE  /\ Distinct(deliver[r])
                        /\ Elems(deliver[r]) = { c \in Context : /\ receiver[c] = r
                                                                 /\ context[c].exists
                                                                 /\ context[c].submits > 0
                                                                 /\ context[c].ack }
                        /\ deliver[r] = <<>> \/ handlers[r] = <<>>
    BY DEF DeliverableQueued
  <2>2. Distinct(deliver[r]) /\ (deliver[r] = <<>> \/ handlers[r] = <<>>)
    BY <2>1, KernelFields DEF SignalInv, Sound, ContextsInQueue, Served
  <2>3. Elems(deliver[r]) \subseteq Context
    <3>1. deliver[r] \in Seq(Context)
      BY <2>1, KernelFields DEF SignalInv, Sound, KernelState
    <3>2. QED BY <3>1, ElemsSubset
  <2>4. ASSUME NEW c \in Context
        PROVE  c \in Elems(deliver[r]) <=>
                 receiver[c] = r /\ context[c].exists /\ context[c].submits > 0 /\ context[c].ack
    <3>1. c \in Elems(deliver[r]) <=> receiver[c] = r /\ context[c].submits > 0 /\ context[c].ack
      BY <2>1, KernelFields DEF SignalInv, Sound, ContextsInQueue
    <3>2. context[c].submits > 0 => context[c].exists
      BY <2>1, KernelFields DEF SignalInv, Sound, ContextsSound
    <3>3. QED BY <3>1, <3>2
  <2>5. QED BY <2>2, <2>3, <2>4
<1>2. QED BY <1>1, SignalInvAlways, PTL

\* Signal_receiver::_handlers holds exactly the threads that wait there: no
\* order of deliveries, cancellations and destructions leaves a thread queued
\* that does not wait, or waiting without being queued.
THEOREM NoHandlerStranded == Spec => []HandlersQueued
<1>1. SignalInv => HandlersQueued
  <2>1. SUFFICES ASSUME SignalInv, NEW r \in Receiver
                 PROVE  /\ Distinct(handlers[r])
                        /\ Elems(handlers[r]) =
                             { t \in Thread : thread[t].state = "AWAITS_SIGNAL" /\ thread[t].receiver = r }
    BY DEF HandlersQueued
  <2>2. HandlersInQueue(Kernel) /\ handlers[r] \in Seq(Thread) /\ r # None
    BY <2>1, KernelFields, SignalAssumption DEF SignalInv, Sound, KernelState
  <2>3. Elems(handlers[r]) \subseteq Thread
    BY <2>2, ElemsSubset
  <2>4. QED BY <2>1, <2>2, <2>3, KernelFields DEF HandlersInQueue
<1>2. QED BY <1>1, SignalInvAlways, PTL

\* Signal_context::_submits is at all times what was accepted and not yet
\* handed to a handler; neither an overflow nor a delivery loses a submit.
THEOREM SubmitsAccountedFor == Spec => []EveryOccurrenceProvided
<1>1. SignalInv => EveryOccurrenceProvided
  BY KernelFields DEF SignalInv, Sound, ContextsSound, EveryOccurrenceProvided
<1>2. QED BY <1>1, SignalInvAlways, PTL

\* A context that delivered delivers again only once Signal_context::ack was
\* called for it, no matter how often submit, await_signal and the destructors
\* run _listen in between.
THEOREM DeliveriesAcknowledged == Spec => NoDeliveryBeforeAck
<1> DEFINE InOrder == \A c \in Context : <<"delivered", c>> \in event' =>
                        c \notin unacked \/ <<"acked", c>> \in event'
<1>1. SignalInv /\ Next => InOrder
  BY NextIsGoodCall DEF Becomes, GoodCall, DeliveriesInOrder
<1>2. SignalInv /\ [Next]_vars => [InOrder]_vars
  BY <1>1
<1>3. QED BY <1>2, SignalInvAlways, PTL DEF Spec, NoDeliveryBeforeAck

\* If core neither cancels killers nor destructs contexts that are being
\* killed, Signal_context::kill reports success only when no handler works with
\* the context any more, and every blocked killer is the one that the awaited
\* acknowledgement wakes up.
THEOREM KillsWaitForAck ==
  ASSUME CancelsKillers = FALSE, DestructsKilled = FALSE
  PROVE  Spec => []KillWaitsForAck
<1> DEFINE Inv == SignalInv /\ KillersWoken(Kernel)
<1>1. Init => Inv
  BY InitSound
<1>2. Inv /\ [Next]_vars => Inv'
  <2>1. SUFFICES ASSUME Inv, [Next]_vars PROVE Inv'
    OBVIOUS
  <2>2. CASE Next
    <3>1. PICK k : Becomes(k) /\ GoodCall(k) /\ KillersWoken(k)
      BY <2>1, <2>2, NextIsGoodCall
    <3>2. live' \subseteq Receiver
      BY <2>1, <2>2, NextIsGoodCall
    <3>3. QED BY <3>1, <3>2, CallDone
  <2>3. CASE UNCHANGED vars
    <3>1. Kernel' = Kernel
      BY <2>3 DEF vars, Kernel
    <3>2. QED BY <2>1, <3>1, SignalInvStep
  <2>4. QED BY <2>1, <2>2, <2>3
<1>3. Inv => KillWaitsForAck
  <2>1. SUFFICES ASSUME Inv, NEW t \in Thread, thread[t].state = "AWAITS_SIGNAL_CONTEXT_KILL"
                 PROVE  \E c \in Context : context[c].exists /\ context[c].killer = t /\ c \in unacked
    BY DEF SignalInv, KillWaitsForAck
  <2>2. thread[t].kills \in Context /\ context[thread[t].kills].killer = t /\ thread[t].kills \in unacked
    BY <2>1, KernelFields DEF KillersWoken
  <2>3. context[thread[t].kills].exists
    BY <2>1, <2>2, KernelFields DEF SignalInv, Sound, ContextsSound
  <2>4. QED BY <2>2, <2>3
<1>4. QED BY <1>1, <1>2, <1>3, PTL DEF Spec

===========================================================================
