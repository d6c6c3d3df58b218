---------------------- MODULE DescriptorEvidenceProofs ----------------------
(* Proofs about two readings of descriptor evidence: the transfers that sends *)
(* and receipts pair up to, and the operations that the rows and the calls of *)
(* a shared ring are joined to.  They share no state.                         *)
EXTENDS DescriptorTransfers, SharedRing, FiniteSetTheorems, SequenceTheorems,
        WellFoundedInduction, TLAPS

-----------------------------------------------------------------------------
(***************************************************************************)
(* Every descriptor transfer the pairing reports is one, for any threads,  *)
(* flows, clock and number of messages.                                    *)
(*                                                                         *)
(* The pairing sees only the order of the events, so the invariant says    *)
(* when that order is the kernel's.  As long as nothing went unseen, every *)
(* message that took effect is in the log or in the hands of one thread    *)
(* (Traced); and where the calls of a side share no moment, and those      *)
(* still open began after the logged ones, position and number of a        *)
(* message are the same (Numbered).                                        *)
(***************************************************************************)

Event == [start : Nat, done : Nat, message : Nat, rights : BOOLEAN]

CallType == [phase : {"none", "entered", "effective"}, flow : Flows,
             side : Sides, start : Nat, message : Nat, rights : BOOLEAN]

TransferTypes ==
    /\ clock \in Nat
    /\ call \in [Threads -> CallType]
    /\ count \in [Flows -> [Sides -> Nat]]
    /\ log \in [Flows -> [Sides -> Seq(Event)]]
    /\ killed \in BOOLEAN

(* The threads whose call on this side has taken effect and not returned. *)
Hit(f, s) == {t \in Threads : Effective(t) /\ call[t].flow = f /\ call[t].side = s}

(* Time goes on. *)
Moments ==
    /\ \A f \in Flows, s \in Sides : \A i \in DOMAIN log[f][s] :
          log[f][s][i].start <= log[f][s][i].done /\ log[f][s][i].done <= clock
    /\ \A t \in Threads : InCall(t) => call[t].start <= clock

Covered(f, s) ==
    \A n \in 1 .. count[f][s] :
        \/ \E i \in DOMAIN log[f][s] : log[f][s][i].message = n
        \/ \E t \in Hit(f, s) : call[t].message = n

Distinct(f, s) ==
    /\ \A t \in Hit(f, s) : call[t].message \in 1 .. count[f][s]
    /\ \A i \in DOMAIN log[f][s] : log[f][s][i].message \in 1 .. count[f][s]
    /\ \A t \in Hit(f, s), i \in DOMAIN log[f][s] : call[t].message # log[f][s][i].message
    /\ \A t, u \in Hit(f, s) : call[t].message = call[u].message => t = u

AllSeen == errors = {} /\ ~killed

Traced == AllSeen => \A f \in Flows, s \in Sides : Covered(f, s) /\ Distinct(f, s)

(* The open calls of a side began after every logged one had returned. *)
Apart(f, s) == \A t \in Hit(f, s), i \in DOMAIN log[f][s] :
                    log[f][s][i].done < call[t].start

InPlace(f, s) == \A i \in DOMAIN log[f][s] : log[f][s][i].message = i

Numbered == AllSeen => \A f \in Flows, s \in Sides :
                Serialized(log[f][s]) /\ Apart(f, s) => InPlace(f, s)

TransferInv == TransferTypes /\ Moments /\ Traced /\ Numbered

-----------------------------------------------------------------------------
(* What a thread may hold. *)
LEMMA CallTypes ==
    /\ NoCall \in CallType
    /\ \A c \in CallType, n \in Nat, r \in BOOLEAN : Done(c, n, r) \in CallType
  <1>1. (CHOOSE f \in Flows : TRUE) \in Flows
    BY TransferAssumption
  <1>. QED BY <1>1 DEF NoCall, Done, CallType, Sides

(* What a call that has taken effect leaves in the log when it returns. *)
Logged(c) == [start |-> c.start, done |-> clock, message |-> c.message, rights |-> c.rights]

(* What one more event does to a log. *)
LEMMA LogAppend ==
    ASSUME NEW s \in Seq(Event), NEW e \in Event
    PROVE  /\ Append(s, e) \in Seq(Event)
           /\ DOMAIN Append(s, e) = DOMAIN s \cup {Len(s) + 1}
           /\ Append(s, e)[Len(s) + 1] = e
           /\ \A i \in DOMAIN s : /\ i \in Nat /\ i < Len(s) + 1 /\ i # Len(s) + 1
                                  /\ Append(s, e)[i] = s[i]
  OBVIOUS

(* Call t of one side returns: one more event in its log. *)
Returns(t, f, s) ==
    /\ f = call[t].flow /\ s = call[t].side /\ f \in Flows /\ s \in Sides
    /\ log[f][s] \in Seq(Event) /\ Logged(call[t]) \in Event
    /\ log'[f][s] = Append(log[f][s], Logged(call[t]))
    /\ log' \in [Flows -> [Sides -> Seq(Event)]]
    /\ \A g \in Flows, r \in Sides : g # f \/ r # s => log'[g][r] = log[g][r]

(* A call that returns leaves one event, in the log of its side. *)
LEMMA ReturnLogs ==
    ASSUME TransferTypes, NEW t \in Threads, ReturnCall(t)
    PROVE  Returns(t, call[t].flow, call[t].side)
  <1>. PICK f, s : f = call[t].flow /\ s = call[t].side
    OBVIOUS
  <1>1. call[t] \in CallType /\ clock \in Nat
    BY DEF TransferTypes
  <1>2. f \in Flows /\ s \in Sides /\ Logged(call[t]) \in Event
    BY <1>1 DEF CallType, Logged, Event
  <1>3. log[f][s] \in Seq(Event) /\ log[f] \in [Sides -> Seq(Event)]
    BY <1>2 DEF TransferTypes
  <1>4. Append(log[f][s], Logged(call[t])) \in Seq(Event)
    BY <1>2, <1>3, LogAppend
  <1>5. log' = [log EXCEPT ![f][s] = Append(log[f][s], Logged(call[t]))]
    BY DEF ReturnCall, Logged
  <1>6. log'[f] = [log[f] EXCEPT ![s] = Append(log[f][s], Logged(call[t]))]
    BY <1>2, <1>5 DEF TransferTypes
  <1>7. log'[f] \in [Sides -> Seq(Event)] /\ log'[f][s] = Append(log[f][s], Logged(call[t]))
        /\ \A r \in Sides \ {s} : log'[f][r] = log[f][r]
    BY <1>2, <1>3, <1>4, <1>6
  <1>8. \A g \in Flows \ {f} : log'[g] = log[g]
    BY <1>5 DEF TransferTypes
  <1>9. log' \in [Flows -> [Sides -> Seq(Event)]]
    <2>1. DOMAIN log' = Flows /\ log' = [g \in Flows |-> log'[g]]
      BY <1>5 DEF TransferTypes
    <2>2. \A g \in Flows : log'[g] \in [Sides -> Seq(Event)]
      BY <1>7, <1>8 DEF TransferTypes
    <2>. QED BY <2>1, <2>2
  <1>. QED BY <1>2, <1>3, <1>4, <1>7, <1>8, <1>9, Zenon DEF Returns

(* No step leaves the types. *)
LEMMA TypesStep ==
    ASSUME TransferTypes, [Next]_vars
    PROVE  TransferTypes'
  <1>. USE DEF TransferTypes
  <1>1. CASE Tick
    BY <1>1, TransferAssumption DEF Tick
  <1>2. ASSUME NEW t \in Threads, EnterCall(t)
        PROVE  TransferTypes'
    <2>1. PICK f \in Flows, s \in Sides, r \in BOOLEAN :
            call' = [call EXCEPT ![t] = [phase |-> "entered", flow |-> f, side |-> s,
                             start |-> clock, message |-> 0, rights |-> r]]
      BY <1>2 DEF EnterCall
    <2>2. [phase |-> "entered", flow |-> f, side |-> s, start |-> clock, message |-> 0,
           rights |-> r] \in CallType
      BY DEF CallType
    <2>3. call' \in [Threads -> CallType]
      BY <2>1, <2>2
    <2>. QED BY <1>2, <2>3 DEF EnterCall
  <1>3. ASSUME NEW t \in Threads, Enqueue(t)
        PROVE  TransferTypes'
    <2>1. call[t] \in CallType /\ call[t].flow \in Flows /\ call[t].rights \in BOOLEAN
      BY DEF CallType
    <2>2. count[call[t].flow]["send"] + 1 \in Nat
      BY <2>1 DEF Sides
    <2>3. call' \in [Threads -> CallType]
      BY <1>3, <2>1, <2>2, CallTypes DEF Enqueue
    <2>4. count' \in [Flows -> [Sides -> Nat]]
      BY <1>3, <2>1, <2>2 DEF Enqueue, Counted, Sides
    <2>. QED BY <1>3, <2>3, <2>4 DEF Enqueue
  <1>4. ASSUME NEW t \in Threads, Dequeue(t)
        PROVE  TransferTypes'
    <2>1. call[t] \in CallType /\ call[t].flow \in Flows
      BY DEF CallType
    <2>2. count[call[t].flow]["receive"] + 1 \in Nat
      BY <2>1 DEF Sides
    <2>3. (call[t].rights /\ carries[call[t].flow][count[call[t].flow]["receive"] + 1])
              \in BOOLEAN
      OBVIOUS
    <2>4. call' \in [Threads -> CallType]
      BY <1>4, <2>1, <2>2, <2>3, CallTypes DEF Dequeue
    <2>5. count' \in [Flows -> [Sides -> Nat]]
      BY <1>4, <2>1, <2>2 DEF Dequeue, Counted, Sides
    <2>. QED BY <1>4, <2>4, <2>5 DEF Dequeue
  <1>5. ASSUME NEW t \in Threads, ReturnCall(t)
        PROVE  TransferTypes'
    <2>1. log' \in [Flows -> [Sides -> Seq(Event)]]
      BY <1>5, ReturnLogs DEF Returns
    <2>2. call' \in [Threads -> CallType]
      BY <1>5, CallTypes DEF ReturnCall
    <2>. QED BY <1>5, <2>1, <2>2 DEF ReturnCall
  <1>6. ASSUME NEW t \in Threads, FailCall(t) \/ LoseOutcome(t) \/ Kill(t)
        PROVE  TransferTypes'
    <2>1. call' \in [Threads -> CallType]
      BY <1>6, CallTypes DEF FailCall, LoseOutcome, Kill
    <2>2. killed' \in BOOLEAN
      BY <1>6 DEF FailCall, LoseOutcome, Kill
    <2>. QED BY <1>6, <2>1, <2>2 DEF FailCall, LoseOutcome, Kill
  <1>7. ASSUME NEW f \in Flows, NEW s \in Sides, HiddenTraffic(f, s)
        PROVE  TransferTypes'
    BY <1>7 DEF HiddenTraffic, Counted
  <1>8. CASE UNCHANGED vars
    BY <1>8 DEF vars
  <1>. QED
    BY <1>1, <1>2, <1>3, <1>4, <1>5, <1>6, <1>7, <1>8 DEF Next

-----------------------------------------------------------------------------
(* What a step changes of the calls that have taken effect: nothing as long  *)
(* as all is seen, one call more on a side, or one that returns.             *)
Steady ==
    /\ UNCHANGED <<log, count>> /\ clock' \in Nat /\ clock <= clock'
    /\ \A u \in Threads : /\ Effective(u)' <=> Effective(u)
                          /\ Effective(u) => call'[u] = call[u]

(* A step that neither takes effect nor returns changes no hit. *)
LEMMA HitsSteady ==
    ASSUME Steady, NEW f \in Flows, NEW s \in Sides
    PROVE  /\ Hit(f, s)' = Hit(f, s)
           /\ \A t \in Hit(f, s) : call'[t] = call[t]
  BY DEF Steady, Hit, Effective

(* A call takes effect. *)
TakesEffect(t, f, s) ==
    /\ f = call[t].flow /\ s = call[t].side /\ f \in Flows /\ s \in Sides
    /\ UNCHANGED <<log, errors, killed, clock>>
    /\ Entered(t) /\ Effective(t)'
    /\ call'[t].flow = f /\ call'[t].side = s /\ call'[t].start = call[t].start
    /\ call'[t].message = count[f][s] + 1 /\ count[f][s] \in Nat
    /\ \A u \in Threads \ {t} : call'[u] = call[u]
    /\ count'[f][s] = count[f][s] + 1
    /\ \A g \in Flows, r \in Sides : g # f \/ r # s => count'[g][r] = count[g][r]

(* It joins the hits of its side, and those of no other. *)
LEMMA EffectHits ==
    ASSUME NEW t \in Threads, NEW f \in Flows, NEW s \in Sides, TakesEffect(t, f, s)
    PROVE  /\ t \notin Hit(f, s) /\ Hit(f, s)' = Hit(f, s) \cup {t}
           /\ \A u \in Hit(f, s) : call'[u] = call[u]
           /\ \A g \in Flows, r \in Sides : g # f \/ r # s =>
                 /\ Hit(g, r)' = Hit(g, r)
                 /\ \A u \in Hit(g, r) : call'[u] = call[u]
  <1>1. t \notin Hit(f, s) /\ ~Effective(t)
    BY DEF TakesEffect, Hit, Entered, Effective
  <1>2. \A u \in Threads \ {t} : call'[u] = call[u] /\ (Effective(u)' <=> Effective(u))
    BY DEF TakesEffect, Effective
  <1>3. Effective(t)' /\ call'[t].flow = f /\ call'[t].side = s
    BY DEF TakesEffect
  <1>. QED BY <1>1, <1>2, <1>3 DEF Hit

(* An enqueue or a dequeue is such a step. *)
LEMMA EffectsTaken ==
    ASSUME TransferTypes, NEW t \in Threads, Enqueue(t) \/ Dequeue(t)
    PROVE  TakesEffect(t, call[t].flow, call[t].side)
  <1>1. call[t] \in CallType /\ call[t].flow \in Flows /\ call[t].side \in Sides
    BY DEF TransferTypes, CallType
  <1>2. count[call[t].flow][call[t].side] \in Nat
    BY <1>1 DEF TransferTypes
  <1>3. /\ \E r : call' = [call EXCEPT ![t] =
                     Done(call[t], count[call[t].flow][call[t].side] + 1, r)]
        /\ count' = Counted(call[t].flow, call[t].side)
        /\ UNCHANGED <<log, errors, killed, clock>> /\ Entered(t)
    BY DEF Enqueue, Dequeue
  <1>4. /\ count'[call[t].flow][call[t].side] = count[call[t].flow][call[t].side] + 1
        /\ \A g \in Flows, r \in Sides : g # call[t].flow \/ r # call[t].side =>
              count'[g][r] = count[g][r]
    BY <1>1, <1>3 DEF TransferTypes, Counted
  <1>5. /\ Effective(t)' /\ call'[t].flow = call[t].flow /\ call'[t].side = call[t].side
        /\ call'[t].start = call[t].start
        /\ call'[t].message = count[call[t].flow][call[t].side] + 1
        /\ \A u \in Threads \ {t} : call'[u] = call[u]
    BY <1>3 DEF TransferTypes, Done, Effective
  <1>. QED BY <1>1, <1>2, <1>3, <1>4, <1>5 DEF TakesEffect

(* A call returns. *)
LEMMA ReturnHits ==
    ASSUME TransferTypes, NEW t \in Threads, ReturnCall(t),
           NEW f, NEW s, f = call[t].flow, s = call[t].side
    PROVE  /\ UNCHANGED <<clock, count, killed>> /\ (errors' = {} => errors = {})
           /\ t \in Hit(f, s) /\ Hit(f, s)' = Hit(f, s) \ {t}
           /\ \A g \in Flows, r \in Sides :
                 /\ g # f \/ r # s => Hit(g, r)' = Hit(g, r)
                 /\ \A u \in Hit(g, r)' : call'[u] = call[u]
  <1>1. call' = [call EXCEPT ![t] = NoCall] /\ Effective(t)
        /\ UNCHANGED <<clock, count, killed>> /\ (errors' = {} => errors = {})
    BY DEF ReturnCall
  <1>2. ~Effective(t)' /\ \A u \in Threads \ {t} : call'[u] = call[u]
    BY <1>1 DEF Effective, NoCall, TransferTypes
  <1>3. \A u \in Threads \ {t} : Effective(u)' <=> Effective(u)
    BY <1>2 DEF Effective
  <1>. QED BY <1>1, <1>2, <1>3 DEF Hit

(* There are no other steps while all is seen. *)
LEMMA StepKinds ==
    ASSUME TransferTypes, [Next]_vars, AllSeen'
    PROVE  /\ AllSeen
           /\ \/ Steady
              \/ \E t \in Threads : TakesEffect(t, call[t].flow, call[t].side)
              \/ \E t \in Threads : ReturnCall(t)
  <1>. USE DEF AllSeen
  <1>1. CASE Tick
    BY <1>1 DEF Tick, Steady, Effective, TransferTypes
  <1>2. ASSUME NEW t \in Threads, EnterCall(t) \/ FailCall(t) \/ Kill(t)
        PROVE  AllSeen /\ Steady
    <2>1. AllSeen /\ ~Effective(t)
      <3>1. CASE EnterCall(t) \/ FailCall(t)
        BY <3>1 DEF EnterCall, FailCall, InCall, Entered, Effective
      <3>2. CASE Kill(t)
        <4>1. killed' <=> killed \/ Effective(t)
          BY <3>2 DEF Kill
        <4>. QED BY <3>2, <4>1 DEF Kill
      <3>. QED BY <1>2, <3>1, <3>2
    <2>2. /\ UNCHANGED <<log, count, clock>> /\ ~Effective(t)'
          /\ \A u \in Threads \ {t} : call'[u] = call[u]
      BY <1>2 DEF EnterCall, FailCall, Kill, NoCall, Effective, TransferTypes
    <2>. QED BY <2>1, <2>2 DEF Steady, Effective, TransferTypes
  <1>3. ASSUME NEW t \in Threads, Enqueue(t) \/ Dequeue(t)
        PROVE  AllSeen /\ TakesEffect(t, call[t].flow, call[t].side)
    BY <1>3, EffectsTaken DEF TakesEffect
  <1>4. ASSUME NEW t \in Threads, ReturnCall(t)
        PROVE  AllSeen
    BY <1>4 DEF ReturnCall
  <1>5. ASSUME NEW t \in Threads, LoseOutcome(t)
        PROVE  FALSE
    BY <1>5 DEF LoseOutcome
  <1>6. ASSUME NEW f \in Flows, NEW s \in Sides, HiddenTraffic(f, s)
        PROVE  FALSE
    BY <1>6 DEF HiddenTraffic
  <1>7. CASE UNCHANGED vars
    BY <1>7 DEF vars, Steady, Effective, TransferTypes
  <1>. QED
    BY <1>1, <1>2, <1>3, <1>4, <1>5, <1>6, <1>7 DEF Next

-----------------------------------------------------------------------------
(* No step puts an event ahead of the clock. *)
LEMMA MomentsStep ==
    ASSUME TransferTypes, Moments, [Next]_vars
    PROVE  Moments'
  <1>. USE DEF Moments
  <1>1. ASSUME NEW t \in Threads, ReturnCall(t)
        PROVE  Moments'
    <2>0. PICK f, s : f = call[t].flow /\ s = call[t].side
      OBVIOUS
    <2>1. /\ f \in Flows /\ s \in Sides /\ clock' = clock
          /\ log[f][s] \in Seq(Event) /\ Logged(call[t]) \in Event
          /\ log'[f][s] = Append(log[f][s], Logged(call[t]))
          /\ \A g \in Flows, r \in Sides : g # f \/ r # s => log'[g][r] = log[g][r]
      <3>1. Returns(t, f, s)
        BY <1>1, <2>0, ReturnLogs
      <3>2. clock' = clock
        BY <1>1 DEF ReturnCall
      <3>. QED BY <3>1, <3>2, Zenon DEF Returns
    <2>2. /\ Logged(call[t]).start <= Logged(call[t]).done
          /\ Logged(call[t]).done <= clock
      BY <1>1 DEF ReturnCall, Effective, InCall, Logged, TransferTypes
    <2>3. \A i \in DOMAIN log'[f][s] :
             log'[f][s][i].start <= log'[f][s][i].done /\ log'[f][s][i].done <= clock
      <3>1. \A i \in DOMAIN log[f][s] :
               log[f][s][i].start <= log[f][s][i].done /\ log[f][s][i].done <= clock
        BY <2>1
      <3>. QED BY <2>1, <2>2, <3>1, LogAppend
    <2>4. \A u \in Threads : InCall(u)' => InCall(u) /\ call'[u] = call[u]
      BY <1>1 DEF ReturnCall, InCall, NoCall, TransferTypes
    <2>5. \A g \in Flows, r \in Sides : \A i \in DOMAIN log'[g][r] :
            log'[g][r][i].start <= log'[g][r][i].done /\ log'[g][r][i].done <= clock'
      <3>1. ASSUME NEW g \in Flows, NEW r \in Sides, g # f \/ r # s,
                   NEW i \in DOMAIN log'[g][r]
            PROVE  log'[g][r][i].start <= log'[g][r][i].done /\ log'[g][r][i].done <= clock'
        BY <2>1, <3>1
      <3>. QED BY <2>1, <2>3, <3>1
    <2>. QED BY <2>1, <2>4, <2>5
  <1>2. ASSUME UNCHANGED log, clock' \in Nat, clock <= clock',
               \A u \in Threads : InCall(u)' => \/ call'[u].start = clock
                                                \/ InCall(u) /\ call'[u].start = call[u].start
        PROVE  Moments'
    <2>1. \A f \in Flows, s \in Sides : \A i \in DOMAIN log[f][s] :
            log[f][s][i].done \in Nat
      <3>1. ASSUME NEW f \in Flows, NEW s \in Sides, NEW i \in DOMAIN log[f][s]
            PROVE  log[f][s][i].done \in Nat
        <4>1. log[f][s] \in Seq(Event)
          BY DEF TransferTypes
        <4>2. log[f][s][i] \in Event
          BY <4>1
        <4>. QED BY <4>2 DEF Event
      <3>. QED BY <3>1
    <2>2. clock \in Nat /\ \A u \in Threads : call[u].start \in Nat
      BY DEF TransferTypes, CallType
    <2>3. \A u \in Threads : InCall(u)' => call'[u].start <= clock'
      BY <1>2, <2>2
    <2>4. \A f \in Flows, s \in Sides : \A i \in DOMAIN log[f][s] :
            log[f][s][i].done <= clock'
      BY <1>2, <2>1, <2>2
    <2>. QED BY <1>2, <2>3, <2>4
  <1>3. CASE Tick
    BY <1>2, <1>3 DEF Tick, TransferTypes, InCall
  <1>4. ASSUME NEW t \in Threads,
               \/ EnterCall(t) \/ Enqueue(t) \/ Dequeue(t)
               \/ FailCall(t) \/ LoseOutcome(t) \/ Kill(t)
        PROVE  Moments'
    <2>1. UNCHANGED <<log, clock>> /\ \A u \in Threads \ {t} : call'[u] = call[u]
      BY <1>4 DEF EnterCall, Enqueue, Dequeue, FailCall, LoseOutcome, Kill, TransferTypes
    <2>2. InCall(t)' => call'[t].start = clock \/ (InCall(t) /\ call'[t].start = call[t].start)
      <3>1. CASE EnterCall(t)
        BY <3>1 DEF EnterCall, TransferTypes
      <3>2. CASE Enqueue(t) \/ Dequeue(t)
        BY <3>2 DEF Enqueue, Dequeue, Done, InCall, Entered, TransferTypes
      <3>3. CASE FailCall(t) \/ LoseOutcome(t) \/ Kill(t)
        <4>1. NoCall.phase = "none"
          BY DEF NoCall
        <4>2. call'[t] = NoCall
          BY <3>3 DEF FailCall, LoseOutcome, Kill, TransferTypes
        <4>. QED BY <4>1, <4>2 DEF InCall
      <3>. QED BY <1>4, <3>1, <3>2, <3>3
    <2>. QED BY <1>2, <2>1, <2>2 DEF TransferTypes, InCall
  <1>5. CASE UNCHANGED vars \/ \E f \in Flows, s \in Sides : HiddenTraffic(f, s)
    BY <1>2, <1>5 DEF vars, HiddenTraffic, TransferTypes, InCall
  <1>. QED
    BY <1>1, <1>3, <1>4, <1>5 DEF Next

(* A message that took effect is held once, by a thread or by the log. *)
LEMMA TracedStep ==
    ASSUME TransferTypes, Traced, [Next]_vars
    PROVE  Traced'
  <1> SUFFICES ASSUME AllSeen', NEW f \in Flows, NEW s \in Sides
               PROVE  Covered(f, s)' /\ Distinct(f, s)'
    BY DEF Traced
  <1>1. Covered(f, s) /\ Distinct(f, s)
    BY StepKinds DEF Traced
  <1>2. CASE Steady
    BY <1>1, <1>2, HitsSteady DEF Steady, Covered, Distinct
  <1>3. ASSUME NEW t \in Threads, TakesEffect(t, call[t].flow, call[t].side)
        PROVE  Covered(f, s)' /\ Distinct(f, s)'
    <2>1. CASE f = call[t].flow /\ s = call[t].side
      <3>1. /\ t \notin Hit(f, s) /\ Hit(f, s)' = Hit(f, s) \cup {t}
            /\ \A u \in Hit(f, s) : call'[u] = call[u]
        BY <1>3, <2>1, EffectHits
      <3>2. /\ log' = log /\ count[f][s] \in Nat /\ count'[f][s] = count[f][s] + 1
            /\ call'[t].message = count[f][s] + 1
        BY <1>3, <2>1 DEF TakesEffect
      <3>3. Covered(f, s)'
        BY <1>1, <3>1, <3>2 DEF Covered
      <3>4. Distinct(f, s)'
        BY <1>1, <3>1, <3>2 DEF Distinct
      <3>. QED BY <3>3, <3>4
    <2>2. CASE ~(f = call[t].flow /\ s = call[t].side)
      <3>1. /\ Hit(f, s)' = Hit(f, s) /\ \A u \in Hit(f, s) : call'[u] = call[u]
            /\ log' = log /\ count'[f][s] = count[f][s]
        BY <1>3, <2>2, EffectHits DEF TakesEffect
      <3>. QED BY <1>1, <3>1 DEF Covered, Distinct
    <2>. QED BY <2>1, <2>2
  <1>4. ASSUME NEW t \in Threads, ReturnCall(t)
        PROVE  Covered(f, s)' /\ Distinct(f, s)'
    <2>1. CASE f = call[t].flow /\ s = call[t].side
      <3>1. /\ t \in Hit(f, s) /\ Hit(f, s)' = Hit(f, s) \ {t} /\ count' = count
            /\ \A u \in Hit(f, s)' : call'[u] = call[u]
        BY <1>4, <2>1, ReturnHits
      <3>2. /\ DOMAIN log'[f][s] = DOMAIN log[f][s] \cup {Len(log[f][s]) + 1}
            /\ log'[f][s][Len(log[f][s]) + 1].message = call[t].message
            /\ \A i \in DOMAIN log[f][s] : /\ log'[f][s][i] = log[f][s][i]
                                           /\ i # Len(log[f][s]) + 1
        <4>1. /\ log[f][s] \in Seq(Event) /\ Logged(call[t]) \in Event
              /\ log'[f][s] = Append(log[f][s], Logged(call[t]))
          <5>1. Returns(t, f, s)
            BY <1>4, <2>1, ReturnLogs
          <5>. QED BY <5>1, Zenon DEF Returns
        <4>2. Logged(call[t]).message = call[t].message
          BY DEF Logged
        <4>. QED BY <4>1, <4>2, LogAppend
      <3>3. Covered(f, s)'
        BY <1>1, <3>1, <3>2 DEF Covered
      <3>4. Distinct(f, s)'
        BY <1>1, <3>1, <3>2 DEF Distinct
      <3>. QED BY <3>3, <3>4
    <2>2. CASE ~(f = call[t].flow /\ s = call[t].side)
      <3>1. /\ Hit(f, s)' = Hit(f, s) /\ count' = count
            /\ \A u \in Hit(f, s)' : call'[u] = call[u]
        BY <1>4, <2>2, ReturnHits
      <3>2. log'[f][s] = log[f][s]
        BY <1>4, <2>2, ReturnLogs DEF Returns
      <3>. QED BY <1>1, <3>1, <3>2 DEF Covered, Distinct
    <2>. QED BY <2>1, <2>2
  <1>. QED BY StepKinds, <1>2, <1>3, <1>4

(* One event more, with its places counted. *)
LEMMA OneMore ==
    ASSUME NEW s \in Seq(Event), NEW e \in Event
    PROVE  \E L \in Nat : /\ DOMAIN s = 1 .. L /\ DOMAIN Append(s, e) = 1 .. L + 1
                          /\ Append(s, e)[L + 1] = e
                          /\ \A i \in 1 .. L : Append(s, e)[i] = s[i] /\ s[i] \in Event
  <1>1. Len(s) \in Nat /\ DOMAIN s = 1 .. Len(s)
    OBVIOUS
  <1>2. /\ DOMAIN Append(s, e) = 1 .. Len(s) + 1
        /\ Append(s, e)[Len(s) + 1] = e
        /\ \A i \in 1 .. Len(s) : Append(s, e)[i] = s[i] /\ s[i] \in Event
    OBVIOUS
  <1>. QED BY <1>1, <1>2

(* A message that returns is the next one, if the order of its side shows:   *)
(* nobody else holds one, for whoever did would have begun before it was     *)
(* done.                                                                     *)
LEMMA NumberedReturn ==
    ASSUME TransferTypes, Moments, Traced, Numbered, AllSeen,
           NEW t \in Threads, ReturnCall(t),
           NEW f \in Flows, NEW s \in Sides, f = call[t].flow, s = call[t].side,
           Serialized(log'[f][s]), Apart(f, s)'
    PROVE  InPlace(f, s)'
  <1>1. PICK old \in Seq(Event), new \in Seq(Event), e \in Event :
          /\ old = log[f][s] /\ new = log'[f][s]
          /\ e = Logged(call[t]) /\ new = Append(old, e)
    <2>1. Returns(t, f, s)
      BY ReturnLogs
    <2>2. Append(log[f][s], Logged(call[t])) \in Seq(Event)
      BY <2>1, LogAppend, Zenon DEF Returns
    <2>. QED BY <2>1, <2>2, Zenon DEF Returns
  <1>2. PICK L \in Nat : /\ DOMAIN old = 1 .. L /\ DOMAIN new = 1 .. L + 1
                         /\ new[L + 1] = e
                         /\ \A i \in 1 .. L : new[i] = old[i] /\ old[i] \in Event
    <2>1. \E L \in Nat :
             /\ DOMAIN old = 1 .. L /\ DOMAIN Append(old, e) = 1 .. L + 1
             /\ Append(old, e)[L + 1] = e
             /\ \A i \in 1 .. L : Append(old, e)[i] = old[i] /\ old[i] \in Event
      BY OneMore
    <2>2. new = Append(old, e)
      BY <1>1, Zenon
    <2>. QED BY ONLY <2>1, <2>2
  <1>3. \A i \in 1 .. L : i \in Nat /\ i < L + 1 /\ i \in 1 .. L + 1
    BY <1>2
  <1>4. e.start = call[t].start /\ e.done = clock /\ e.message = call[t].message
    BY <1>1, Zenon DEF Logged
  <1>5. clock \in Nat /\ \A u \in Threads : call[u].start \in Nat /\ call[u].message \in Nat
    BY DEF TransferTypes, CallType
  <1>6. t \in Hit(f, s) /\ Hit(f, s)' = Hit(f, s) \ {t}
        /\ \A u \in Hit(f, s)' : call'[u] = call[u]
    BY ReturnHits
  <1>7. Serialized(new)
    BY <1>1, Zenon
  <1>8. Serialized(old)
    <2>1. \A i \in DOMAIN old : i \in DOMAIN new /\ new[i] = old[i]
      BY <1>2, <1>3
    <2>. QED BY <1>7, <2>1 DEF Serialized
  <1>9. \A i \in DOMAIN old : old[i].done < call[t].start
    <2>1. TAKE i \in DOMAIN old
    <2>2. i \in DOMAIN new /\ L + 1 \in DOMAIN new /\ i < L + 1 /\ new[i] = old[i]
      BY <1>2, <1>3
    <2>3. old[i].done < call[t].start \/ clock < old[i].start
      <3>1. new[i].done < new[L + 1].start \/ new[L + 1].done < new[i].start
        BY <1>7, <2>2 DEF Serialized
      <3>. QED BY <1>2, <1>4, <2>2, <3>1
    <2>4. old[i].start <= old[i].done /\ old[i].done <= clock
      BY <1>1, Zenon DEF Moments
    <2>5. old[i].start \in Nat /\ old[i].done \in Nat
      BY <1>2, <1>3 DEF Event
    <2>. QED BY <1>5, <2>3, <2>4, <2>5
  <1>10. Hit(f, s) = {t}
    <2>1. ASSUME NEW u \in Hit(f, s), u # t PROVE FALSE
      <3>1. u \in Hit(f, s)' /\ call'[u] = call[u] /\ u \in Threads
        BY <1>6, <2>1 DEF Hit
      <3>2. L + 1 \in DOMAIN log'[f][s] /\ log'[f][s][L + 1].done = clock
        <4>1. L + 1 \in DOMAIN new /\ new[L + 1].done = clock
          BY <1>2, <1>4
        <4>. QED BY <1>1, <4>1, Zenon
      <3>3. clock < call[u].start
        BY <3>1, <3>2 DEF Apart
      <3>4. call[u].start <= clock
        BY <2>1, <3>1 DEF Moments, Hit, Effective, InCall
      <3>. QED BY <1>5, <3>1, <3>3, <3>4
    <2>. QED BY <1>6, <2>1
  <1>11. \A i \in DOMAIN old : old[i].message = i
    <2>1. Apart(f, s)
      BY <1>1, <1>9, <1>10, Zenon DEF Apart
    <2>2. InPlace(f, s)
      BY <1>1, <1>8, <2>1, Zenon DEF Numbered
    <2>. QED BY <1>1, <2>2, Zenon DEF InPlace
  <1>12. call[t].message = L + 1
    <2>1. Covered(f, s) /\ Distinct(f, s)
      BY DEF Traced
    <2>2. call[t].message \in 1 .. count[f][s] /\ count[f][s] \in Nat
      <3>1. call[t].message \in 1 .. count[f][s]
        BY <1>6, <2>1 DEF Distinct
      <3>. QED BY <3>1 DEF TransferTypes
    <2>3. call[t].message \notin 1 .. L
      <3>1. \A i \in DOMAIN log[f][s] : call[t].message # log[f][s][i].message
        BY <1>6, <2>1 DEF Distinct
      <3>2. \A i \in DOMAIN old : call[t].message # i
        <4>1. TAKE i \in DOMAIN old
        <4>2. old[i].message = i /\ call[t].message # old[i].message
          BY <1>1, <1>11, <3>1, Zenon
        <4>. QED BY <4>2
      <3>. QED BY <1>2, <3>2
    <2>4. L + 1 \in 1 .. count[f][s]
      BY <1>2, <1>5, <2>2, <2>3
    <2>5. ~\E i \in DOMAIN log[f][s] : log[f][s][i].message = L + 1
      <3>1. \A i \in DOMAIN old : old[i].message # L + 1
        BY <1>2, <1>11
      <3>. QED BY <1>1, <3>1, Zenon
    <2>. QED BY <1>10, <2>1, <2>4, <2>5, Zenon DEF Covered
  <1>13. \A i \in DOMAIN new : new[i].message = i
    <2>1. new[L + 1].message = L + 1
      BY <1>2, <1>4, <1>12
    <2>2. \A i \in 1 .. L : new[i].message = i
      BY <1>2, <1>11
    <2>. QED BY <1>2, <2>1, <2>2
  <1>. QED BY <1>1, <1>13, Zenon DEF InPlace

(* The order that shows stays the kernel's. *)
LEMMA NumberedStep ==
    ASSUME TransferTypes, Moments, Traced, Numbered, [Next]_vars
    PROVE  Numbered'
  <1> SUFFICES ASSUME AllSeen', NEW f \in Flows, NEW s \in Sides,
                      Serialized(log'[f][s]), Apart(f, s)'
               PROVE  InPlace(f, s)'
    BY DEF Numbered
  <1>1. AllSeen /\ (Serialized(log[f][s]) /\ Apart(f, s) => InPlace(f, s))
    BY StepKinds DEF Numbered
  <1>2. CASE Steady
    BY <1>1, <1>2, HitsSteady DEF Steady, Apart, InPlace
  <1>3. ASSUME NEW t \in Threads, TakesEffect(t, call[t].flow, call[t].side)
        PROVE  InPlace(f, s)'
    <2>1. /\ Hit(f, s) \subseteq Hit(f, s)' /\ \A u \in Hit(f, s) : call'[u] = call[u]
      <3>1. CASE f = call[t].flow /\ s = call[t].side
        BY <1>3, <3>1, EffectHits
      <3>2. CASE ~(f = call[t].flow /\ s = call[t].side)
        BY <1>3, <3>2, EffectHits DEF TakesEffect
      <3>. QED BY <3>1, <3>2
    <2>2. log' = log
      BY <1>3 DEF TakesEffect
    <2>. QED BY <1>1, <2>1, <2>2 DEF Apart, InPlace
  <1>4. ASSUME NEW t \in Threads, ReturnCall(t)
        PROVE  InPlace(f, s)'
    <2>1. CASE f = call[t].flow /\ s = call[t].side
      BY <1>1, <1>4, <2>1, NumberedReturn
    <2>2. CASE ~(f = call[t].flow /\ s = call[t].side)
      <3>1. Hit(f, s)' = Hit(f, s) /\ \A u \in Hit(f, s)' : call'[u] = call[u]
        BY <1>4, <2>2, ReturnHits
      <3>2. log'[f][s] = log[f][s]
        BY <1>4, <2>2, ReturnLogs DEF Returns
      <3>. QED BY <1>1, <3>1, <3>2 DEF Apart, InPlace
    <2>. QED BY <2>1, <2>2
  <1>. QED BY StepKinds, <1>2, <1>3, <1>4

(* Nothing is sent and nobody is in a call. *)
LEMMA TransferInit == Init => TransferInv
  <1> SUFFICES ASSUME Init PROVE TransferInv
    OBVIOUS
  <1>1. TransferTypes
    <2>1. call \in [Threads -> CallType]
      BY CallTypes DEF Init
    <2>2. /\ log \in [Flows -> [Sides -> Seq(Event)]]
          /\ count \in [Flows -> [Sides -> Nat]]
      BY DEF Init
    <2>. QED BY <2>1, <2>2 DEF Init, TransferTypes
  <1>2. \A f \in Flows, s \in Sides :
           DOMAIN log[f][s] = {} /\ Hit(f, s) = {} /\ count[f][s] = 0
    <2>1. \A t \in Threads : call[t] = NoCall
      BY DEF Init
    <2>2. NoCall.phase = "none"
      BY DEF NoCall
    <2>3. \A f \in Flows, s \in Sides : log[f][s] = <<>> /\ count[f][s] = 0
      BY DEF Init
    <2>. QED BY <2>1, <2>2, <2>3 DEF Hit, Effective
  <1>3. \A t \in Threads : ~InCall(t)
    BY DEF Init, InCall, NoCall
  <1>. QED BY <1>1, <1>2, <1>3 DEF TransferInv, Moments, Traced, Numbered, Covered,
                                    Distinct, InPlace

(* Every pair the channel reports joins the send and the receive of one      *)
(* message: pair_transfers, for every channel without a thread killed in a   *)
(* call that had taken effect.                                               *)
THEOREM PairsJoinOneMessage == Spec => []PairsAreTransfers
  <1>1. TransferInv /\ [Next]_vars => TransferInv'
    BY TypesStep, MomentsStep, TracedStep, NumberedStep DEF TransferInv
  <1>2. ASSUME TransferInv PROVE PairsAreTransfers
    <2> SUFFICES ASSUME Quiet, ~killed, NEW f \in Flows, NEW i \in Pairs(f)
                 PROVE  log[f].send[i].message = log[f].receive[i].message
      BY DEF PairsAreTransfers
    <2>1. ChannelAccepted /\ i \in DOMAIN log[f].send
      BY DEF Pairs
    <2>2. AllSeen /\ Balanced(f) /\ \A s \in Sides : Serialized(log[f][s])
      BY <2>1 DEF ChannelAccepted, AllSeen
    <2>3. \A s \in Sides : Apart(f, s)
      BY DEF Quiet, Apart, Hit, InCall, Effective
    <2>4. \A s \in Sides : InPlace(f, s)
      BY <1>2, <2>2, <2>3 DEF TransferInv, Numbered
    <2>5. log[f]["send"] \in Seq(Event) /\ log[f]["receive"] \in Seq(Event)
      BY <1>2 DEF TransferInv, TransferTypes, Sides
    <2>6. i \in DOMAIN log[f]["send"] /\ i \in DOMAIN log[f]["receive"]
      BY <2>1, <2>2, <2>5 DEF Balanced
    <2>. QED BY <2>4, <2>6 DEF InPlace, Sides
  <1>. QED BY TransferInit, <1>1, <1>2, PTL DEF Spec

-----------------------------------------------------------------------------
(***************************************************************************)
(* The shared ring: what an accepted capture reports is what the kernel    *)
(* performed, and an answered job was performed, for any number of jobs,   *)
(* any width of a batch and any faults.                                    *)
(*                                                                         *)
(* KernelInv is about the program and the kernel: the jobs in hand are the *)
(* last ones taken, the calls still to be made are the rest of a plan that *)
(* the batch determines, and each of its operations is in flight, in the   *)
(* completion queue or seen.  EvidenceInv adds what was written of it.  An *)
(* operation names itself by a number that no other job has (IdOf), so a   *)
(* submission and the completion joined to it can only be of the operation *)
(* performed.  The job that the markers around a submission tell is the    *)
(* job in hand, as long as the markers of the trace are those of the log:  *)
(* one that is missed is missing for good (MarkersMatch, JobsRight).  The  *)
(* file that a number denotes at an enter is the file it still denotes, or *)
(* none that is known, because files are opened and replaced only before   *)
(* the first enter (FilesEarly, FilesRight).                               *)
(***************************************************************************)

(* The numbers are well founded. *)
LEMMA LeastNumber ==
    ASSUME NEW S \in SUBSET Nat, S # {}
    PROVE  \E n \in S : \A m \in S : n <= m
  <1>. DEFINE R == {p \in Nat \X Nat : p[1] < p[2]}
  <1>1. IsWellFoundedOn(R, Nat)
    BY NatLessThanWellFounded DEF OpToRel
  <1>2. PICK n \in S : \A m \in S : ~(<<m, n>> \in R)
    <2>. HIDE DEF R
    <2>. QED BY <1>1, WFMin
  <1>3. \A m \in Nat, k \in Nat : m < k => <<m, k>> \in R
    OBVIOUS
  <1>. HIDE DEF R
  <1>4. \A m \in S : ~(m < n)
    BY <1>2, <1>3
  <1>. QED BY <1>4

(* Of positions that fail, one is the first, and the one before it does not. *)
LEMMA FirstOf ==
    ASSUME NEW n \in Nat, NEW Bad, Bad \subseteq 1 .. n, Bad # {}
    PROVE  \E k \in Bad : /\ k \in 1 .. n
                          /\ k # 1 => k - 1 \in 1 .. n /\ k - 1 \notin Bad
  <1>1. Bad \in SUBSET Nat
    OBVIOUS
  <1>2. PICK k \in Bad : \A j \in Bad : k <= j
    BY <1>1, LeastNumber
  <1>. QED BY <1>2

(* A bounded set of numbers has a greatest one. *)
LEMMA GreatestNumber ==
    ASSUME NEW S \in SUBSET Nat, S # {}, NEW b \in Nat, \A n \in S : n <= b
    PROVE  \E n \in S : \A m \in S : m <= n
  <1>. DEFINE T == {b - n : n \in S}
  <1>1. T \in SUBSET Nat /\ T # {}
    <2>1. \A n \in S : b - n \in Nat
      OBVIOUS
    <2>. QED BY <2>1
  <1>2. PICK t \in T : \A u \in T : t <= u
    <2>. HIDE DEF T
    <2>. QED BY <1>1, LeastNumber
  <1>3. PICK n \in S : t = b - n
    OBVIOUS
  <1>4. \A m \in S : b - n <= b - m
    BY <1>2, <1>3
  <1>5. \A m \in S : m \in Nat /\ n \in Nat /\ b - n <= b - m => m <= n
    OBVIOUS
  <1>. QED BY <1>4, <1>5

-----------------------------------------------------------------------------
(* Concatenation of sequences, which the library computes by a function that *)
(* calls itself: there is one such function and no other.                    *)
Flat(f, s, n) == f = [i \in 1 .. n |-> IF i = 1 THEN s[i] ELSE f[i - 1] \o s[i]]

LEMMA FlattenFlat ==
    ASSUME NEW s, Len(s) # 0
    PROVE  FlattenSeq(s) = (CHOOSE f : Flat(f, s, Len(s)))[Len(s)]
  BY DEF FlattenSeq, Flat

LEMMA FlatUnique ==
    ASSUME NEW f, NEW g, NEW s, NEW t, NEW n \in Nat, NEW k \in 0 .. n,
           Flat(f, s, n), Flat(g, t, k), \A i \in 1 .. k : s[i] = t[i]
    PROVE  \A i \in 1 .. k : f[i] = g[i]
  <1>. DEFINE Bad == {i \in 1 .. k : f[i] # g[i]}
  <1>. SUFFICES ASSUME Bad # {} PROVE FALSE
    OBVIOUS
  <1>1. PICK i \in Bad : \A j \in Bad : i <= j
    <2>1. \A j : j \in 1 .. k => j \in Nat
      OBVIOUS
    <2>2. \A j \in Bad : j \in 1 .. k
      OBVIOUS
    <2>. HIDE DEF Bad
    <2>3. Bad \in SUBSET Nat
      BY <2>1, <2>2
    <2>. QED BY <2>3, LeastNumber
  <1>2. /\ f[i] = IF i = 1 THEN s[i] ELSE f[i - 1] \o s[i]
        /\ g[i] = IF i = 1 THEN t[i] ELSE g[i - 1] \o t[i]
    <2>1. i \in 1 .. k /\ i \in 1 .. n
      OBVIOUS
    <2>. QED BY <2>1 DEF Flat
  <1>3. i # 1 => i - 1 \in 1 .. k /\ i - 1 \notin Bad
    BY <1>1
  <1>. QED BY <1>1, <1>2, <1>3

LEMMA FlatExists ==
    ASSUME NEW s, NEW n \in Nat
    PROVE  \E f : Flat(f, s, n)
  <1>. DEFINE Bad == {k \in Nat : ~ \E f : Flat(f, s, k)}
  <1>. SUFFICES ASSUME Bad # {} PROVE FALSE
    OBVIOUS
  <1>1. PICK k \in Bad : \A j \in Bad : k <= j
    BY LeastNumber
  <1>2. CASE k = 0
    <2>. DEFINE f == [i \in 1 .. 0 |-> 0]
    <2>1. Flat(f, s, 0)
      BY DEF Flat
    <2>. QED BY <1>1, <1>2, <2>1
  <1>3. CASE k # 0
    <2>1. k - 1 \in Nat /\ k - 1 \notin Bad
      BY <1>1, <1>3
    <2>2. PICK f : Flat(f, s, k - 1)
      BY <2>1
    <2>. DEFINE g == [i \in 1 .. k |-> IF i = k
                        THEN IF k = 1 THEN s[k] ELSE f[k - 1] \o s[k] ELSE f[i]]
    <2>3. \A i \in 1 .. k - 1 : f[i] = IF i = 1 THEN s[i] ELSE f[i - 1] \o s[i]
      BY <2>2 DEF Flat
    <2>4. \A i \in 1 .. k : g[i] = IF i = 1 THEN s[i] ELSE g[i - 1] \o s[i]
      BY <1>3, <2>1, <2>3
    <2>5. Flat(g, s, k)
      BY <2>4 DEF Flat
    <2>. QED BY <1>1, <2>5
  <1>. QED BY <1>2, <1>3

LEMMA FlattenIs ==
    ASSUME NEW s, Len(s) \in Nat, Len(s) # 0
    PROVE  \E f : Flat(f, s, Len(s)) /\ FlattenSeq(s) = f[Len(s)]
  BY FlattenFlat, FlatExists

LEMMA FlattenOne ==
    ASSUME NEW x
    PROVE  FlattenSeq(<<x>>) = x
  <1>1. Len(<<x>>) = 1 /\ <<x>>[1] = x
    OBVIOUS
  <1>. DEFINE s == <<x>>
  <1>. HIDE DEF s
  <1>2. PICK f : Flat(f, s, 1) /\ FlattenSeq(s) = f[1]
    <2>1. Len(s) = 1
      BY <1>1 DEF s
    <2>. QED BY <2>1, FlattenIs
  <1>. QED BY <1>1, <1>2 DEF Flat, s

(* What is concatenated may be taken apart at the end. *)
LEMMA FlattenLonger ==
    ASSUME NEW T, NEW s \in Seq(T), NEW x \in T, s # <<>>
    PROVE  FlattenSeq(Append(s, x)) = FlattenSeq(s) \o x
  <1>. DEFINE n == Len(s)
              new == Append(s, x)
  <1>1. /\ n \in Nat /\ n # 0 /\ Len(new) = n + 1
        /\ \A i \in 1 .. n : new[i] = s[i]
        /\ new[n + 1] = x
    BY AppendProperties, LenProperties, EmptySeq
  <1>. HIDE DEF new, n
  <1>2. PICK f : Flat(f, s, n) /\ FlattenSeq(s) = f[n]
    BY <1>1, FlattenIs DEF n
  <1>3. PICK g : Flat(g, new, n + 1) /\ FlattenSeq(new) = g[n + 1]
    BY <1>1, FlattenIs
  <1>4. g[n] = f[n]
    BY <1>1, <1>2, <1>3, FlatUnique
  <1>5. g[n + 1] = g[n] \o new[n + 1]
    <2>1. /\ n + 1 \in 1 .. n + 1 /\ n + 1 # 1 /\ (n + 1) - 1 = n
      BY <1>1
    <2>. QED BY <1>3, <2>1 DEF Flat
  <1>. QED BY <1>1, <1>2, <1>3, <1>4, <1>5 DEF new

LEMMA FlattenAppend ==
    ASSUME NEW S, NEW s \in Seq(Seq(S)), NEW x \in Seq(S)
    PROVE  FlattenSeq(Append(s, x)) = FlattenSeq(s) \o x
  <1>1. CASE s = <<>>
    <2>1. FlattenSeq(s) = <<>>
      BY <1>1 DEF FlattenSeq
    <2>2. Append(s, x) = <<x>>
      BY <1>1
    <2>. QED BY <2>1, <2>2, FlattenOne
  <1>2. CASE s # <<>>
    BY <1>2, FlattenLonger
  <1>. QED BY <1>1, <1>2

LEMMA ConcatSet ==
    ASSUME NEW S, NEW a \in Seq(S), NEW b \in Seq(S)
    PROVE  ToSet(a \o b) = ToSet(a) \cup ToSet(b)
  <1>. DEFINE m == Len(a)
              n == Len(b)
              c == a \o b
  <1>1. /\ m \in Nat /\ n \in Nat /\ DOMAIN a = 1 .. m /\ DOMAIN b = 1 .. n
        /\ DOMAIN c = 1 .. m + n
        /\ \A q \in 1 .. m + n : c[q] = IF q <= m THEN a[q] ELSE b[q - m]
    BY ConcatProperties, LenProperties
  <1>. HIDE DEF m, n, c
  <1>2. ASSUME NEW x \in ToSet(c) PROVE x \in ToSet(a) \cup ToSet(b)
    <2>1. PICK q \in 1 .. m + n : x = c[q]
      BY <1>1, <1>2 DEF ToSet
    <2>2. q <= m => q \in 1 .. m /\ x = a[q]
      BY <1>1, <2>1
    <2>3. ~(q <= m) => q - m \in 1 .. n /\ x = b[q - m]
      BY <1>1, <2>1
    <2>. QED BY <1>1, <2>2, <2>3 DEF ToSet
  <1>3. ASSUME NEW x \in ToSet(a) PROVE x \in ToSet(c)
    <2>1. PICK q \in 1 .. m : x = a[q]
      BY <1>1, <1>3 DEF ToSet
    <2>2. q \in 1 .. m + n /\ q <= m
      BY <1>1, <2>1
    <2>. QED BY <1>1, <2>1, <2>2 DEF ToSet
  <1>4. ASSUME NEW x \in ToSet(b) PROVE x \in ToSet(c)
    <2>1. PICK q \in 1 .. n : x = b[q]
      BY <1>1, <1>4 DEF ToSet
    <2>2. q + m \in 1 .. m + n /\ ~(q + m <= m) /\ (q + m) - m = q
      BY <1>1, <2>1
    <2>. QED BY <1>1, <2>1, <2>2 DEF ToSet
  <1>. QED BY <1>2, <1>3, <1>4 DEF c

(* What is concatenated are the elements of the sequences. *)
LEMMA FlattenType ==
    ASSUME NEW S, NEW s \in Seq(Seq(S))
    PROVE  /\ FlattenSeq(s) \in Seq(S)
           /\ \A x : x \in ToSet(FlattenSeq(s)) <=> \E i \in DOMAIN s : x \in ToSet(s[i])
  <1>1. CASE s = <<>>
    <2>1. FlattenSeq(s) = <<>>
      BY <1>1 DEF FlattenSeq
    <2>2. DOMAIN s = {} /\ s \in Seq(S)
      BY <1>1
    <2>. QED BY <1>1, <2>1, <2>2 DEF ToSet
  <1>2. CASE s # <<>>
    <2>. DEFINE n == Len(s)
    <2>1. n \in Nat /\ n # 0 /\ DOMAIN s = 1 .. n /\ \A i \in 1 .. n : s[i] \in Seq(S)
      BY <1>2, LenProperties, EmptySeq
    <2>2. PICK f : Flat(f, s, n) /\ FlattenSeq(s) = f[n]
      BY <2>1, FlattenIs
    <2>. HIDE DEF n
    <2>. DEFINE Right(k) == /\ f[k] \in Seq(S)
                            /\ \A x : x \in ToSet(f[k]) <=> \E i \in 1 .. k : x \in ToSet(s[i])
                Bad == {k \in 1 .. n : ~Right(k)}
    <2>3. Bad = {}
      <3>. SUFFICES ASSUME Bad # {} PROVE FALSE
        OBVIOUS
      <3>0. Bad \subseteq 1 .. n
        OBVIOUS
      <3>1. PICK k \in Bad : /\ k \in 1 .. n
                             /\ k # 1 => k - 1 \in 1 .. n /\ k - 1 \notin Bad
        <4>. HIDE DEF Bad
        <4>. QED BY <2>1, <3>0, FirstOf
      <3>2. k \in 1 .. n /\ k \in Nat /\ ~Right(k)
        <4>1. k \in 1 .. n /\ n \in Nat
          BY <2>1, <3>1, Zenon
        <4>2. ~Right(k)
          <5>. HIDE DEF Right
          <5>. QED BY Zenon DEF Bad
        <4>. HIDE DEF Right
        <4>. QED BY <4>1, <4>2
      <3>3. f[k] = IF k = 1 THEN s[k] ELSE f[k - 1] \o s[k]
        BY <2>2, <3>2 DEF Flat
      <3>4. CASE k = 1
        <4>1. f[k] = s[1] /\ s[1] \in Seq(S)
          BY <2>1, <3>2, <3>3, <3>4
        <4>2. \A i : i \in 1 .. 1 <=> i = 1
          OBVIOUS
        <4>3. \A x : x \in ToSet(f[1]) <=> \E i \in 1 .. 1 : x \in ToSet(s[i])
          BY <3>4, <4>1, <4>2
        <4>. QED BY <3>2, <3>4, <4>1, <4>3
      <3>5. CASE k # 1
        <4>1. k - 1 \in 1 .. n /\ k - 1 \notin Bad
          BY <3>1, <3>5
        <4>2. Right(k - 1)
          BY <4>1
        <4>3. f[k] = f[k - 1] \o s[k] /\ f[k] \in Seq(S)
          BY <2>1, <3>2, <3>3, <3>5, <4>2, ConcatProperties, SMTT(20)
        <4>4. \A x : x \in ToSet(f[k]) <=> x \in ToSet(f[k - 1]) \/ x \in ToSet(s[k])
          <5>1. f[k - 1] \in Seq(S) /\ s[k] \in Seq(S)
            BY <2>1, <3>2, <4>2
          <5>2. ToSet(f[k - 1] \o s[k]) = ToSet(f[k - 1]) \cup ToSet(s[k])
            BY <5>1, ConcatSet
          <5>. HIDE DEF Right, Bad
          <5>. QED BY <4>3, <5>2
        <4>5. \A i : i \in 1 .. k <=> i \in 1 .. k - 1 \/ i = k
          BY <3>2
        <4>. HIDE DEF Bad
        <4>. QED BY <3>2, <4>2, <4>3, <4>4, <4>5
      <3>. QED BY <3>4, <3>5
    <2>4. n \in 1 .. n
      BY <2>1
    <2>5. Right(n)
      BY <2>3, <2>4
    <2>. QED BY <2>1, <2>2, <2>5
  <1>. QED BY <1>1, <1>2

(* Blocks of four calls, one after the other. *)
LEMMA FlattenBlocks ==
    ASSUME NEW S, NEW s \in Seq(Seq(S)), \A k \in DOMAIN s : Len(s[k]) = 4
    PROVE  /\ Len(FlattenSeq(s)) = 4 * Len(s)
           /\ \A k \in DOMAIN s, m \in 1 .. 4 :
                 FlattenSeq(s)[4 * (k - 1) + m] = s[k][m]
  <1>1. CASE s = <<>>
    <2>1. FlattenSeq(s) = <<>>
      BY <1>1 DEF FlattenSeq
    <2>. QED BY <1>1, <2>1
  <1>2. CASE s # <<>>
    <2>. DEFINE n == Len(s)
    <2>1. /\ n \in Nat /\ n # 0 /\ DOMAIN s = 1 .. n
          /\ \A i \in 1 .. n : s[i] \in Seq(S) /\ Len(s[i]) = 4
      BY <1>2, LenProperties, EmptySeq
    <2>2. PICK f : Flat(f, s, n) /\ FlattenSeq(s) = f[n]
      BY <2>1, FlattenIs
    <2>. HIDE DEF n
    <2>. DEFINE Right(k) == /\ f[k] \in Seq(S) /\ Len(f[k]) = 4 * k
                            /\ \A i \in 1 .. k, m \in 1 .. 4 :
                                  f[k][4 * (i - 1) + m] = s[i][m]
                Bad == {k \in 1 .. n : ~Right(k)}
    <2>3. Bad = {}
      <3>. SUFFICES ASSUME Bad # {} PROVE FALSE
        OBVIOUS
      <3>0. Bad \subseteq 1 .. n
        OBVIOUS
      <3>1. PICK k \in Bad : /\ k \in 1 .. n
                             /\ k # 1 => k - 1 \in 1 .. n /\ k - 1 \notin Bad
        <4>. HIDE DEF Bad
        <4>. QED BY <2>1, <3>0, FirstOf
      <3>2. k \in 1 .. n /\ k \in Nat /\ ~Right(k)
        <4>1. k \in 1 .. n /\ n \in Nat
          BY <2>1, <3>1, Zenon
        <4>2. ~Right(k)
          <5>. HIDE DEF Right
          <5>. QED BY Zenon DEF Bad
        <4>. HIDE DEF Right
        <4>. QED BY <4>1, <4>2
      <3>3. f[k] = IF k = 1 THEN s[k] ELSE f[k - 1] \o s[k]
        BY <2>2, <3>2 DEF Flat
      <3>4. CASE k = 1
        <4>1. f[k] = s[1] /\ s[1] \in Seq(S) /\ Len(s[1]) = 4
          BY <2>1, <3>2, <3>3, <3>4
        <4>2. \A i \in 1 .. k : i = 1
          BY <3>4
        <4>3. \A m \in 1 .. 4 : 4 * (1 - 1) + m = m
          OBVIOUS
        <4>. QED BY <3>2, <3>4, <4>1, <4>2, <4>3
      <3>5. CASE k # 1
        <4>1. k - 1 \in 1 .. n /\ k - 1 \notin Bad
          BY <3>1, <3>5
        <4>2. Right(k - 1)
          BY <4>1
        <4>. HIDE DEF Bad
        <4>3. f[k] = f[k - 1] \o s[k] /\ f[k - 1] \in Seq(S) /\ s[k] \in Seq(S)
              /\ Len(f[k - 1]) = 4 * (k - 1) /\ Len(s[k]) = 4
          BY <2>1, <3>2, <3>3, <3>5, <4>2
        <4>4. /\ f[k] \in Seq(S) /\ Len(f[k]) = 4 * k
              /\ \A q \in 1 .. 4 * (k - 1) : f[k][q] = f[k - 1][q]
              /\ \A m \in 1 .. 4 : f[k][4 * (k - 1) + m] = s[k][m]
          <5>1. /\ f[k] \in Seq(S) /\ Len(f[k]) = 4 * (k - 1) + 4
                /\ \A q \in 1 .. 4 * (k - 1) + 4 :
                      f[k][q] = IF q <= 4 * (k - 1) THEN f[k - 1][q]
                                ELSE s[k][q - 4 * (k - 1)]
            <6>. DEFINE a == f[k - 1]
                        b == s[k]
            <6>1. f[k] = a \o b /\ a \in Seq(S) /\ b \in Seq(S)
                  /\ Len(a) = 4 * (k - 1) /\ Len(b) = 4
              BY <4>3
            <6>. HIDE DEF Right, a, b
            <6>2. /\ a \o b \in Seq(S) /\ Len(a \o b) = Len(a) + Len(b)
                  /\ \A q \in 1 .. Len(a) + Len(b) :
                        (a \o b)[q] = IF q <= Len(a) THEN a[q] ELSE b[q - Len(a)]
              BY <6>1, ConcatProperties
            <6>. QED BY <6>1, <6>2 DEF a, b
          <5>2. \A m \in 1 .. 4 : /\ 4 * (k - 1) + m \in 1 .. 4 * (k - 1) + 4
                                  /\ ~(4 * (k - 1) + m <= 4 * (k - 1))
                                  /\ (4 * (k - 1) + m) - 4 * (k - 1) = m
            BY <3>2
          <5>3. \A m \in 1 .. 4 : f[k][4 * (k - 1) + m] = s[k][m]
            BY <5>1, <5>2
          <5>4. \A q \in 1 .. 4 * (k - 1) : f[k][q] = f[k - 1][q]
            <6>1. \A q \in 1 .. 4 * (k - 1) : q \in 1 .. 4 * (k - 1) + 4 /\ q <= 4 * (k - 1)
              BY <3>2
            <6>. QED BY <5>1, <6>1
          <5>5. 4 * (k - 1) + 4 = 4 * k
            BY <3>2
          <5>. QED BY <5>1, <5>3, <5>4, <5>5
        <4>5. ASSUME NEW i \in 1 .. k, NEW m \in 1 .. 4
              PROVE  f[k][4 * (i - 1) + m] = s[i][m]
          <5>1. CASE i = k
            BY <4>4, <5>1
          <5>2. CASE i # k
            <6>1. i \in 1 .. k - 1 /\ 4 * (i - 1) + m \in 1 .. 4 * (k - 1)
              BY <3>2, <5>2
            <6>. QED BY <4>2, <4>4, <6>1
          <5>. QED BY <5>1, <5>2
        <4>. QED BY <3>2, <4>4, <4>5
      <3>. QED BY <3>4, <3>5
    <2>4. n \in 1 .. n
      BY <2>1
    <2>5. Right(n)
      BY <2>3, <2>4
    <2>. QED BY <2>1, <2>2, <2>5 DEF n
  <1>. QED BY <1>1, <1>2

-----------------------------------------------------------------------------
(* Operation i of job j, by the number that its rows carry. *)
IdOf(j, i) == 2 * (j - 1) + i
BatchIds == 2 * (taken - Len(batch)) + 1 .. 2 * taken
Operation(j, i) ==
    [id |-> IdOf(j, i), op |-> JobOps[i], job |-> j,
     file |-> IF JobOps[i] = "read" THEN Invalid ELSE file]
Outcome(j, i, result) ==
    [id |-> IdOf(j, i), op |-> JobOps[i], job |-> j, result |-> result,
     file |-> IF JobOps[i] = "read" THEN Invalid ELSE file]

CallNames == {"open", "setup", "close", "enter", "write", "IPC_ENTER", "IPC_LEAVE", "torn"}
Files == {NoFile, "slots", "replacement"}
RowRecord == [kind : {"sqe", "cqe", "torn"}, id : Nat, op : {"write", "read", "none", ""},
              fd : Int, result : {"none", "whole", "EBADF", "error", ""}, batch : Nat]
CallRecord == [call : CallNames, fd : Int, file : Files, rows : Seq(RowRecord),
               job : Nat, count : Nat, result : {"ok", "short", "unknown"}]
CompletionRecord == [id : Nat, op : {"write", "read"}, result : {"whole", "EBADF", "error"}]
Stages == {"gathering", "submitting", "waiting", "short", "draining", "failed", "succeeded"}

RingTypes ==
    /\ mode \in {"shared", "helper"} /\ idle \in BOOLEAN /\ replaces \in BOOLEAN
    /\ ended \in BOOLEAN /\ sent \in Nat /\ taken \in Nat /\ taken <= sent
    /\ at \in Stages /\ number \in Nat
    /\ todo \in Seq(CallRecord) /\ trace \in Seq(CallRecord) /\ native \in Seq(CallRecord)
    /\ sidecar \in Seq(RowRecord) /\ seen \in Seq(RowRecord)
    /\ cq \in Seq(CompletionRecord)
    /\ file \in Files
    /\ exit \in {"running", "0", "1", "killed"}

(* The jobs in hand are the last ones that were taken. *)
BatchKnown ==
    /\ batch \in Seq(Nat) /\ Len(batch) <= taken
    /\ \A k \in DOMAIN batch : batch[k] = taken - Len(batch) + k
    /\ at # "gathering" => batch # <<>>

(* A helper has one job, and one batch of it. *)
HelperKnown ==
    /\ at \in {"failed", "succeeded"} => mode = "helper"
    /\ mode = "shared" => ~replaces
    /\ mode = "helper" =>
         /\ sent = 1 /\ ended
         /\ taken = Len(batch)
         /\ number = IF at = "gathering" THEN 0 ELSE 1

(* The calls that are about to be made. *)
PlanOf(n) == (IF mode = "shared" THEN Prepare(n) ELSE PrepareHelper) \o <<Enter>>
Plan == PlanOf(number)
Made == Len(Plan) - Len(todo)
TodoKnown ==
    /\ ~Running => todo = <<>>
    /\ at \in {"waiting", "short"} => todo = <<>>
    /\ at = "gathering" => todo \in {Opens, Tail(Opens), <<>>}
    /\ at = "gathering" /\ todo # <<>> => taken = 0 /\ number = 0 /\ batch = <<>>
    /\ Running /\ at = "submitting" =>
         /\ Len(todo) \in 1 .. Len(Plan)
         /\ \A i \in DOMAIN todo : todo[i] = Plan[Made + i]
    /\ at = "draining" => \/ todo = <<>>
                          \/ /\ mode = "shared" /\ seen # <<>>
                             /\ todo = <<WriteOf(<<seen[Len(seen)]>>)>>
    /\ at \in {"failed", "succeeded"} => todo \in {<<>>, <<WriteOf(seen)>>}

(* What the kernel has and what it has done. *)
OperationsKnown ==
    /\ \A o \in inflight : \E k \in DOMAIN batch, i \in {1, 2} : o = Operation(batch[k], i)
    /\ \A t \in truth : \E j \in 1 .. taken, i \in {1, 2} :
          \E result \in {Expected(JobOps[i]), "error"} : t = Outcome(j, i, result)
    /\ \A o \in inflight, t \in truth : o.id # t.id
    /\ \A t, u \in truth : t.id = u.id => t = u
    /\ at \in {"gathering", "submitting"} =>
         /\ inflight = {} /\ cq = <<>> /\ seen = <<>>
         /\ \A t \in truth : t.job <= taken - Len(batch)

(* The completions of a batch, those not yet seen and those seen. *)
CompletionsKnown ==
    /\ \A q \in DOMAIN cq :
          /\ cq[q].id \in BatchIds
          /\ \E t \in truth : t.id = cq[q].id /\ t.op = cq[q].op /\ t.result = cq[q].result
    /\ \A p \in DOMAIN seen :
          /\ seen[p].kind = "cqe" /\ seen[p].id \in BatchIds /\ seen[p].batch = number
          /\ \E t \in truth : /\ t.id = seen[p].id /\ t.result = seen[p].result
                              /\ at # "failed" => t.result = Expected(t.op)
    /\ \A p, q \in DOMAIN cq : cq[p].id = cq[q].id => p = q
    /\ \A p, q \in DOMAIN seen : seen[p].id = seen[q].id => p = q
    /\ \A p \in DOMAIN seen, q \in DOMAIN cq : seen[p].id # cq[q].id
    /\ at = "succeeded" => AllReaped

KernelInv == /\ RingTypes /\ BatchKnown /\ HelperKnown /\ TodoKnown /\ OperationsKnown
             /\ CompletionsKnown /\ AnsweredIsPerformed

-----------------------------------------------------------------------------
(* A row tells of an operation of a job that was taken, or that was performed. *)
KnownRow(r) ==
    /\ r.kind = "sqe" =>
         /\ \E j \in 1 .. taken, i \in {1, 2} :
               r = Row("sqe", IdOf(j, i), JobOps[i], FdOf(JobOps[i]), "none", r.batch)
         /\ mode = "helper" => r.batch = 1
    /\ r.kind = "cqe" => \E t \in truth : t.id = r.id /\ t.result = r.result

(* A call writes such rows, and its arguments are those of the program. *)
KnownCall(e) ==
    /\ \A r \in ToSet(e.rows) : KnownRow(r)
    /\ e.call = "open" => /\ e.fd = FileFd /\ e.file \in {"slots", "replacement"}
                          /\ mode = "shared" => e.file = "slots"
    /\ e.call = "setup" => e.fd = RingFd
    /\ e.call = "close" => e.fd = FileFd
    /\ e.call # "write" => e.rows = <<>>
    /\ e.call = "enter" /\ e.result = "ok" /\ mode = "helper" => e.count = 2

CallsKnown ==
    /\ \A r \in ToSet(sidecar) : KnownRow(r)
    /\ \A e \in ToSet(trace) : KnownCall(e)
    /\ \A e \in ToSet(todo) : KnownCall(e) /\ e.result = "ok"

(* What the kernel was given is in the file of the worker. *)
SubmissionsWritten == mode = "shared" =>
    /\ \A o \in inflight \cup truth : \E r \in ToSet(sidecar) : r.kind = "sqe" /\ r.id = o.id
    /\ Running /\ at = "submitting" => \A id \in BatchIds :
         \/ \E r \in ToSet(sidecar) : r.kind = "sqe" /\ r.id = id
         \/ \E e \in ToSet(todo) : \E r \in ToSet(e.rows) : r.kind = "sqe" /\ r.id = id

(* A marker is logged when it is written; the tracer may have missed it. *)
MarkersMatch ==
    /\ Running => Len(MarkersOf(trace)) <= Len(native)
    /\ \A e \in ToSet(native) : e.result = "ok"

(* The job that is being prepared, and the one the markers tell. *)
InHand == IF at = "submitting" /\ Made % 4 # 0 THEN batch[(Made \div 4) + 1] ELSE NoJob

OwnedRows(tr) == \A i \in DOMAIN tr : \A r \in ToSet(tr[i].rows) :
    r.kind = "sqe" => \E m \in {1, 2} : r.id = IdOf(JobAt(tr, i), m)

JobsRight == mode = "shared" /\ WholeMarkers =>
    /\ OwnedRows(trace)
    /\ Running => JobAt(trace, Len(trace) + 1) = InHand

(* The file of a number at each enter, and that of the next call. *)
FilesRight ==
    /\ \A e \in Enters(trace) : Resource(trace, FileFd, e) \in {file, Unresolved}
    /\ mode = "shared" => file # "replacement"
    /\ Running => \/ Resource(trace, FileFd, Len(trace) + 1) \in {file, Unresolved}
                  \/ /\ "lost" \in faults /\ file = NoFile /\ todo # <<>>
                     /\ Head(todo).call = "open"

(* A file is opened or replaced when no number can be of another file. *)
FilesEarly ==
    /\ at # "gathering" => number # 0
    /\ number = 0 \/ (mode = "helper" /\ at = "submitting") => Enters(trace) = {}
    /\ at = "gathering" /\ todo = Opens => file = NoFile
    /\ todo # <<>> /\ Head(todo).call = "open" => file = NoFile

EvidenceInv == /\ KernelInv /\ CallsKnown /\ SubmissionsWritten /\ MarkersMatch
               /\ JobsRight /\ FilesEarly /\ FilesRight
LEMMA LastOf ==
    ASSUME NEW S, NEW s \in Seq(S), s # <<>>
    PROVE  Len(s) \in 1 .. Len(s) /\ s[Len(s)] \in S /\ s[1] \in S
  BY EmptySeq, LenProperties

LEMMA ConcatFour ==
    ASSUME NEW S, NEW a \in S, NEW b \in S, NEW c \in S, NEW d \in S
    PROVE  <<a>> \o <<b, c>> \o <<d>> = <<a, b, c, d>>
  <1>. DEFINE x == <<a>> \o <<b, c>>
              y == x \o <<d>>
              z == <<a, b, c, d>>
  <1>0. <<a>> \in Seq(S) /\ <<b, c>> \in Seq(S) /\ <<d>> \in Seq(S) /\ z \in Seq(S)
        /\ Len(<<a>>) = 1 /\ Len(<<b, c>>) = 2 /\ Len(<<d>>) = 1 /\ Len(z) = 4
    OBVIOUS
  <1>1. /\ x \in Seq(S) /\ Len(x) = 3
        /\ \A i \in 1 .. 3 : x[i] = IF i <= 1 THEN <<a>>[i] ELSE <<b, c>>[i - 1]
    BY <1>0, ConcatProperties
  <1>2. x[1] = a /\ x[2] = b /\ x[3] = c
    BY <1>1
  <1>. DEFINE w == <<d>>
  <1>3. w \in Seq(S) /\ Len(w) = 1 /\ w[1] = d
    BY <1>0
  <1>. HIDE DEF x, w
  <1>4. /\ x \o w \in Seq(S) /\ Len(x \o w) = Len(x) + Len(w)
        /\ \A i \in 1 .. Len(x) + Len(w) :
              (x \o w)[i] = IF i <= Len(x) THEN x[i] ELSE w[i - Len(x)]
    BY <1>1, <1>3, ConcatProperties
  <1>5. y[1] = a /\ y[2] = b /\ y[3] = c /\ y[4] = d /\ y \in Seq(S) /\ Len(y) = 4
    BY <1>1, <1>2, <1>3, <1>4 DEF w
  <1>6. z[1] = a /\ z[2] = b /\ z[3] = c /\ z[4] = d
    OBVIOUS
  <1>. HIDE DEF y, z
  <1>7. \A i \in 1 .. 4 : y[i] = z[i]
    BY <1>5, <1>6
  <1>8. y = z
    BY <1>0, <1>5, <1>7, SeqEqual
  <1>. QED BY <1>8 DEF x, y, z

LEMMA AppendSet ==
    ASSUME NEW S, NEW s \in Seq(S), NEW x \in S
    PROVE  ToSet(Append(s, x)) = ToSet(s) \cup {x}
  <1>. DEFINE n == Len(s)
              c == Append(s, x)
  <1>1. /\ n \in Nat /\ DOMAIN s = 1 .. n /\ DOMAIN c = 1 .. n + 1
        /\ \A q \in 1 .. n : c[q] = s[q]
        /\ c[n + 1] = x
    BY AppendProperties, LenProperties
  <1>. HIDE DEF n, c
  <1>2. \A q \in 1 .. n + 1 : q \in 1 .. n \/ q = n + 1
    BY <1>1
  <1>3. \A q \in 1 .. n : q \in 1 .. n + 1
    BY <1>1
  <1>4. n + 1 \in 1 .. n + 1
    BY <1>1
  <1>. QED BY <1>1, <1>2, <1>3, <1>4 DEF ToSet, c

LEMMA TailSet ==
    ASSUME NEW S, NEW s \in Seq(S), s # <<>>
    PROVE  /\ Head(s) \in ToSet(s) /\ Head(s) \in S /\ Tail(s) \in Seq(S)
           /\ ToSet(s) = {Head(s)} \cup ToSet(Tail(s))
           /\ Len(Tail(s)) = Len(s) - 1
           /\ \A q \in 1 .. Len(s) - 1 : Tail(s)[q] = s[q + 1]
  <1>. DEFINE n == Len(s)
              c == Tail(s)
  <1>1. /\ n \in Nat /\ n # 0 /\ DOMAIN s = 1 .. n /\ DOMAIN c = 1 .. n - 1 /\ Len(c) = n - 1
        /\ c \in Seq(S)
        /\ \A q \in 1 .. n - 1 : c[q] = s[q + 1]
        /\ Head(s) = s[1] /\ s[1] \in S
    BY HeadTailProperties, LenProperties, EmptySeq
  <1>. HIDE DEF n, c
  <1>2. \A q \in 1 .. n : q = 1 \/ (q - 1 \in 1 .. n - 1 /\ (q - 1) + 1 = q)
    BY <1>1
  <1>3. \A q \in 1 .. n - 1 : q + 1 \in 1 .. n
    BY <1>1
  <1>4. 1 \in 1 .. n
    BY <1>1
  <1>5. ToSet(s) = {s[q] : q \in 1 .. n} /\ ToSet(c) = {c[q] : q \in 1 .. n - 1}
    BY <1>1 DEF ToSet
  <1>6. ASSUME NEW x \in ToSet(s) PROVE x \in {Head(s)} \cup ToSet(c)
    <2>1. PICK q \in 1 .. n : x = s[q]
      BY <1>5, <1>6
    <2>2. CASE q = 1
      BY <1>1, <2>1, <2>2
    <2>3. CASE q - 1 \in 1 .. n - 1 /\ (q - 1) + 1 = q
      <3>1. x = c[q - 1]
        BY <1>1, <2>1, <2>3
      <3>. QED BY <1>5, <2>3, <3>1
    <2>. QED BY <1>2, <2>1, <2>2, <2>3
  <1>7. ASSUME NEW x \in ToSet(c) PROVE x \in ToSet(s)
    BY <1>1, <1>3, <1>5
  <1>8. Head(s) \in ToSet(s)
    BY <1>1, <1>4, <1>5
  <1>. QED BY <1>1, <1>6, <1>7, <1>8 DEF n, c

(* The operations of a job, and the calls that prepare a batch. *)
LEMMA IdsOfBatch ==
    ASSUME RingTypes, BatchKnown, NEW k \in DOMAIN batch
    PROVE  /\ Ids(k) = [i \in {1, 2} |-> IdOf(batch[k], i)]
           /\ batch[k] \in Nat /\ batch[k] \in 1 .. taken /\ batch[k] > taken - Len(batch)
           /\ k \in 1 .. Len(batch)
           /\ \A i \in {1, 2} : IdOf(batch[k], i) \in BatchIds /\ IdOf(batch[k], i) \in Nat
  <1>1. /\ k \in 1 .. Len(batch) /\ Len(batch) \in Nat /\ taken \in Nat /\ Len(batch) <= taken
        /\ batch[k] = taken - Len(batch) + k
    BY LenProperties DEF RingTypes, BatchKnown
  <1>2. Len(JobOps) = 2 /\ DOMAIN JobOps = {1, 2}
    BY DEF JobOps
  <1>3. \A i \in {1, 2} : 2 * (taken - Len(batch) + k - 1) + i = IdOf(batch[k], i)
    BY <1>1 DEF IdOf
  <1>4. Ids(k) = [i \in {1, 2} |-> IdOf(batch[k], i)]
    BY <1>2, <1>3 DEF Ids
  <1>5. \A i \in {1, 2} : IdOf(batch[k], i) \in BatchIds /\ IdOf(batch[k], i) \in Nat
    BY <1>1, SMTT(20) DEF IdOf, BatchIds
  <1>. QED BY <1>1, <1>4, <1>5

LEMMA IdsDiffer ==
    ASSUME NEW j \in Nat, NEW k \in Nat, NEW i \in {1, 2}, NEW m \in {1, 2},
           IdOf(j, i) = IdOf(k, m)
    PROVE  j = k /\ i = m
  BY DEF IdOf

LEMMA BatchIdsAre ==
    ASSUME RingTypes, BatchKnown
    PROVE  /\ \A id \in BatchIds : \E k \in DOMAIN batch, i \in {1, 2} : id = IdOf(batch[k], i)
           /\ IsFiniteSet(BatchIds) /\ Cardinality(BatchIds) = 2 * Len(batch)
           /\ BatchIds \subseteq Nat
  <1>1. /\ Len(batch) \in Nat /\ taken \in Nat /\ Len(batch) <= taken
        /\ DOMAIN batch = 1 .. Len(batch)
        /\ \A k \in 1 .. Len(batch) : batch[k] = taken - Len(batch) + k
    BY LenProperties DEF RingTypes, BatchKnown
  <1>2. ASSUME NEW id \in BatchIds
        PROVE  \E k \in DOMAIN batch, i \in {1, 2} : id = IdOf(batch[k], i)
    <2>. DEFINE base == 2 * (taken - Len(batch))
                d == id - base
    <2>1. d \in 1 .. 2 * Len(batch) /\ id \in Nat
      BY <1>1 DEF BatchIds
    <2>2. PICK k \in 1 .. Len(batch) : d = 2 * k - 1 \/ d = 2 * k
      <3>1. (d + 1) \div 2 \in 1 .. Len(batch)
            /\ (d = 2 * ((d + 1) \div 2) - 1 \/ d = 2 * ((d + 1) \div 2))
        <4>. HIDE DEF d
        <4>. QED BY <1>1, <2>1
      <3>. QED BY <3>1
    <2>3. CASE d = 2 * k - 1
      <3>1. id = IdOf(batch[k], 1)
        BY <1>1, <2>1, <2>2, <2>3 DEF IdOf
      <3>. QED BY <1>1, <3>1
    <2>4. CASE d = 2 * k
      <3>1. id = IdOf(batch[k], 2)
        BY <1>1, <2>1, <2>2, <2>4 DEF IdOf
      <3>. QED BY <1>1, <3>1
    <2>. QED BY <2>2, <2>3, <2>4
  <1>3. IsFiniteSet(BatchIds) /\ Cardinality(BatchIds) = 2 * Len(batch)
    <2>. DEFINE a == 2 * (taken - Len(batch)) + 1
                b == 2 * taken
    <2>1. a \in Int /\ b \in Int /\ b - a + 1 = 2 * Len(batch)
          /\ (a > b => 2 * Len(batch) = 0)
      BY <1>1
    <2>. HIDE DEF a, b
    <2>2. IsFiniteSet(a .. b) /\ Cardinality(a .. b) = IF a > b THEN 0 ELSE b - a + 1
      BY <2>1, FS_Interval
    <2>. QED BY <2>1, <2>2 DEF BatchIds, a, b
  <1>4. BatchIds \subseteq Nat
    BY <1>1 DEF BatchIds
  <1>. QED BY <1>2, <1>3, <1>4

(* The rows of a submission. *)
LEMMA SubmissionRow ==
    ASSUME RingTypes, BatchKnown, NEW n \in Nat, NEW k \in DOMAIN batch, NEW i \in {1, 2}
    PROVE  /\ SqeRows(k, n)[i] = Row("sqe", IdOf(batch[k], i), JobOps[i], FdOf(JobOps[i]), "none", n)
           /\ SqeRows(k, n)[i] \in RowRecord
           /\ SqeRows(k, n)[i].kind = "sqe" /\ SqeRows(k, n)[i].id = IdOf(batch[k], i)
           /\ SqeRows(k, n)[i].batch = n
  <1>1. Ids(k) = [m \in {1, 2} |-> IdOf(batch[k], m)] /\ IdOf(batch[k], i) \in Nat
    BY IdsOfBatch
  <1>2. DOMAIN JobOps = {1, 2} /\ JobOps[i] \in {"write", "read"}
    BY DEF JobOps
  <1>3. SqeRows(k, n)[i] = Row("sqe", IdOf(batch[k], i), JobOps[i], FdOf(JobOps[i]), "none", n)
    BY <1>1, <1>2 DEF SqeRows
  <1>4. FdOf(JobOps[i]) \in Int
    BY DEF FdOf, BadFd, FileFd
  <1>5. Row("sqe", IdOf(batch[k], i), JobOps[i], FdOf(JobOps[i]), "none", n) \in RowRecord
    BY <1>1, <1>2, <1>4 DEF Row, RowRecord
  <1>. QED BY <1>3, <1>5 DEF Row

LEMMA CallKinds ==
    /\ \A rows \in Seq(RowRecord) :
          /\ WriteOf(rows) \in CallRecord /\ WriteOf(rows).rows = rows
          /\ WriteOf(rows).call = "write" /\ WriteOf(rows).result = "ok"
    /\ \A kind \in {"IPC_ENTER", "IPC_LEAVE"}, job \in Nat :
          /\ MarkerOf(kind, job) \in CallRecord /\ MarkerOf(kind, job).rows = <<>>
          /\ MarkerOf(kind, job).call = kind /\ MarkerOf(kind, job).job = job
          /\ MarkerOf(kind, job).result = "ok"
    /\ \A name \in CallNames : /\ Call(name) \in CallRecord /\ Call(name).rows = <<>>
                            /\ Call(name).call = name /\ Call(name).result = "ok"
  <1>1. /\ NoJob \in Nat /\ NoFile \in Files /\ <<>> \in Seq(RowRecord)
    BY DEF Files, NoJob
  <1>2. ASSUME NEW name \in CallNames
        PROVE  /\ Call(name) \in CallRecord /\ Call(name).rows = <<>>
               /\ Call(name).call = name /\ Call(name).result = "ok"
    BY <1>1 DEF Call, CallRecord
  <1>3. "write" \in CallNames /\ "IPC_ENTER" \in CallNames /\ "IPC_LEAVE" \in CallNames
    BY DEF CallNames
  <1>4. ASSUME NEW rows \in Seq(RowRecord)
        PROVE  /\ WriteOf(rows) \in CallRecord /\ WriteOf(rows).call = "write"
               /\ WriteOf(rows).rows = rows /\ WriteOf(rows).result = "ok"
    <2>1. /\ Call("write") \in CallRecord /\ Call("write").call = "write"
          /\ Call("write").result = "ok"
      BY <1>2, <1>3
    <2>. QED BY ONLY <1>4, <2>1 DEF WriteOf, CallRecord
  <1>5. ASSUME NEW kind \in {"IPC_ENTER", "IPC_LEAVE"}, NEW job \in Nat
        PROVE  /\ MarkerOf(kind, job) \in CallRecord /\ MarkerOf(kind, job).rows = <<>>
               /\ MarkerOf(kind, job).call = kind /\ MarkerOf(kind, job).job = job
               /\ MarkerOf(kind, job).result = "ok"
    <2>1. /\ Call(kind) \in CallRecord /\ Call(kind).call = kind
          /\ Call(kind).result = "ok" /\ Call(kind).rows = <<>>
      BY <1>2, <1>3
    <2>. QED BY ONLY <1>5, <2>1 DEF MarkerOf, CallRecord
  <1>. QED BY <1>2, <1>4, <1>5

LEMMA EnterIs ==
    ASSUME RingTypes, BatchKnown
    PROVE  /\ Enter \in CallRecord /\ Enter.call = "enter" /\ Enter.rows = <<>>
           /\ Enter.result = "ok" /\ Enter.count = 2 * Len(batch)
  <1>1. Len(batch) \in Nat /\ Len(JobOps) = 2
    BY LenProperties DEF BatchKnown, JobOps
  <1>2. /\ Call("enter") \in CallRecord /\ Call("enter").rows = <<>>
        /\ Call("enter").call = "enter" /\ Call("enter").result = "ok"
    BY CallKinds DEF CallNames
  <1>. QED BY <1>1, <1>2 DEF Enter, CallRecord

(* The four calls that prepare a job. *)
Block(k, n) == <<MarkerOf("IPC_ENTER", batch[k]), WriteOf(<<SqeRows(k, n)[1]>>),
                 WriteOf(<<SqeRows(k, n)[2]>>), MarkerOf("IPC_LEAVE", batch[k])>>

LEMMA PrepareIs ==
    ASSUME RingTypes, BatchKnown, NEW n \in Nat
    PROVE  /\ Prepare(n) \in Seq(CallRecord) /\ Len(Prepare(n)) = 4 * Len(batch)
           /\ \A k \in DOMAIN batch, m \in 1 .. 4 :
                 Prepare(n)[4 * (k - 1) + m] = Block(k, n)[m]
  <1>. DEFINE blocks == [k \in DOMAIN batch |->
                  <<MarkerOf("IPC_ENTER", batch[k])>>
                    \o [i \in DOMAIN JobOps |-> WriteOf(<<SqeRows(k, n)[i]>>)]
                    \o <<MarkerOf("IPC_LEAVE", batch[k])>>]
  <1>1. ASSUME NEW k \in DOMAIN batch
        PROVE  blocks[k] = Block(k, n) /\ Block(k, n) \in Seq(CallRecord) /\ Len(Block(k, n)) = 4
    <2>1. batch[k] \in Nat
      BY IdsOfBatch
    <2>2. /\ <<SqeRows(k, n)[1]>> \in Seq(RowRecord)
          /\ <<SqeRows(k, n)[2]>> \in Seq(RowRecord)
      BY SubmissionRow
    <2>. DEFINE a == MarkerOf("IPC_ENTER", batch[k])
                b == WriteOf(<<SqeRows(k, n)[1]>>)
                c == WriteOf(<<SqeRows(k, n)[2]>>)
                d == MarkerOf("IPC_LEAVE", batch[k])
    <2>3. a \in CallRecord /\ b \in CallRecord /\ c \in CallRecord /\ d \in CallRecord
      BY <2>1, <2>2, CallKinds
    <2>4. [i \in DOMAIN JobOps |-> WriteOf(<<SqeRows(k, n)[i]>>)] = <<b, c>>
      <3>1. DOMAIN JobOps = 1 .. 2
        BY DEF JobOps
      <3>. QED BY <3>1
    <2>5. blocks[k] = <<a>> \o <<b, c>> \o <<d>>
      BY <2>4
    <2>. HIDE DEF a, b, c, d
    <2>6. <<a>> \o <<b, c>> \o <<d>> = <<a, b, c, d>>
      BY <2>3, ConcatFour
    <2>7. <<a, b, c, d>> \in Seq(CallRecord) /\ Len(<<a, b, c, d>>) = 4
      BY <2>3
    <2>. QED BY <2>5, <2>6, <2>7 DEF Block, a, b, c, d
  <1>2. /\ Len(batch) \in Nat /\ DOMAIN batch = 1 .. Len(batch)
    BY LenProperties DEF BatchKnown
  <1>. HIDE DEF blocks
  <1>3. DOMAIN blocks = 1 .. Len(batch)
    BY <1>2 DEF blocks
  <1>4. blocks = [k \in 1 .. Len(batch) |-> blocks[k]]
    BY <1>3 DEF blocks
  <1>5. blocks \in Seq(Seq(CallRecord)) /\ Len(blocks) = Len(batch)
    BY <1>1, <1>2, <1>3, <1>4
  <1>6. \A k \in DOMAIN blocks : Len(blocks[k]) = 4
    BY <1>1, <1>2, <1>3
  <1>7. Prepare(n) = FlattenSeq(blocks)
    BY DEF Prepare, blocks
  <1>8. /\ FlattenSeq(blocks) \in Seq(CallRecord)
        /\ Len(FlattenSeq(blocks)) = 4 * Len(blocks)
        /\ \A k \in DOMAIN blocks, m \in 1 .. 4 :
              FlattenSeq(blocks)[4 * (k - 1) + m] = blocks[k][m]
    BY <1>5, <1>6, FlattenType, FlattenBlocks
  <1>. QED BY <1>1, <1>2, <1>3, <1>5, <1>7, <1>8

(* A job and one of its four calls, for every position of what is prepared. *)
LEMMA PositionIs ==
    ASSUME NEW n \in Nat, NEW p \in 1 .. 4 * n
    PROVE  \E k \in 1 .. n, m \in 1 .. 4 : p = 4 * (k - 1) + m
  <1>1. /\ (p + 3) \div 4 \in 1 .. n
        /\ p - 4 * ((p + 3) \div 4 - 1) \in 1 .. 4
        /\ p = 4 * ((p + 3) \div 4 - 1) + (p - 4 * ((p + 3) \div 4 - 1))
    OBVIOUS
  <1>. QED BY <1>1

LEMMA CallWith ==
    ASSUME NEW c \in CallRecord, NEW fd \in Int, NEW f \in Files
    PROVE  LET one == [c EXCEPT !.fd = fd]
               two == [c EXCEPT !.fd = fd, !.file = f]
           IN  /\ one \in CallRecord /\ one.fd = fd /\ one.call = c.call
               /\ one.rows = c.rows /\ one.result = c.result /\ one.file = c.file
               /\ two \in CallRecord /\ two.fd = fd /\ two.call = c.call
               /\ two.rows = c.rows /\ two.result = c.result /\ two.file = f
  BY DEF CallRecord

LEMMA HelperPlan ==
    ASSUME RingTypes, BatchKnown, batch # <<>>
    PROVE  LET rows == SqeRows(1, 1)
               close == [Call("close") EXCEPT !.fd = FileFd]
               open == [Call("open") EXCEPT !.fd = FileFd, !.file = "replacement"]
           IN  /\ rows \in Seq(RowRecord) /\ Len(rows) = 2
               /\ WriteOf(rows) \in CallRecord /\ close \in CallRecord /\ open \in CallRecord
               /\ PrepareHelper = IF replaces THEN <<WriteOf(rows), close, open>>
                                  ELSE <<WriteOf(rows)>>
               /\ WriteOf(rows).call = "write" /\ WriteOf(rows).rows = rows
               /\ WriteOf(rows).result = "ok"
               /\ close.call = "close" /\ close.fd = FileFd /\ close.rows = <<>>
               /\ close.result = "ok"
               /\ open.call = "open" /\ open.fd = FileFd /\ open.file = "replacement"
               /\ open.rows = <<>> /\ open.result = "ok"
  <1>. DEFINE rows == SqeRows(1, 1)
              close == [Call("close") EXCEPT !.fd = FileFd]
              open == [Call("open") EXCEPT !.fd = FileFd, !.file = "replacement"]
              write == WriteOf(rows)
  <1>1. 1 \in DOMAIN batch
    BY EmptySeq, LenProperties DEF BatchKnown
  <1>2. rows \in Seq(RowRecord) /\ Len(rows) = 2
    <2>1. \A i \in 1 .. 2 : rows[i] \in RowRecord
      BY <1>1, SubmissionRow
    <2>2. rows = [i \in 1 .. 2 |-> rows[i]]
      BY DEF SqeRows, JobOps
    <2>. HIDE DEF rows
    <2>. QED BY <2>1, <2>2
  <1>3. write \in CallRecord /\ write.rows = rows /\ write.call = "write" /\ write.result = "ok"
    <2>. HIDE DEF rows
    <2>. QED BY <1>2, CallKinds
  <1>4. /\ Call("close") \in CallRecord /\ Call("close").rows = <<>>
        /\ Call("close").call = "close" /\ Call("close").result = "ok"
        /\ Call("open") \in CallRecord /\ Call("open").rows = <<>>
        /\ Call("open").call = "open" /\ Call("open").result = "ok"
    BY CallKinds DEF CallNames
  <1>5. /\ close \in CallRecord /\ close.call = "close" /\ close.fd = FileFd
        /\ close.rows = <<>> /\ close.result = "ok"
        /\ open \in CallRecord /\ open.call = "open" /\ open.fd = FileFd
        /\ open.file = "replacement" /\ open.rows = <<>> /\ open.result = "ok"
    <2>. DEFINE c == Call("close")
                o == Call("open")
    <2>1. c \in CallRecord /\ o \in CallRecord /\ FileFd \in Int /\ "replacement" \in Files
      BY <1>4 DEF Files, FileFd
    <2>. HIDE DEF c, o
    <2>2. /\ [c EXCEPT !.fd = FileFd] \in CallRecord
          /\ [c EXCEPT !.fd = FileFd].fd = FileFd
          /\ [c EXCEPT !.fd = FileFd].call = c.call
          /\ [c EXCEPT !.fd = FileFd].rows = c.rows
          /\ [c EXCEPT !.fd = FileFd].result = c.result
      BY <2>1, CallWith
    <2>3. /\ [o EXCEPT !.fd = FileFd, !.file = "replacement"] \in CallRecord
          /\ [o EXCEPT !.fd = FileFd, !.file = "replacement"].fd = FileFd
          /\ [o EXCEPT !.fd = FileFd, !.file = "replacement"].call = o.call
          /\ [o EXCEPT !.fd = FileFd, !.file = "replacement"].rows = o.rows
          /\ [o EXCEPT !.fd = FileFd, !.file = "replacement"].result = o.result
          /\ [o EXCEPT !.fd = FileFd, !.file = "replacement"].file = "replacement"
      BY <2>1 DEF CallRecord
    <2>. QED BY <1>4, <2>2, <2>3 DEF c, o
  <1>6. PrepareHelper = <<write>> \o IF replaces THEN <<close, open>> ELSE <<>>
    BY DEF PrepareHelper
  <1>. HIDE DEF rows, close, open, write
  <1>7. <<write>> \o <<close, open>> = <<write, close, open>>
    <2>. DEFINE a == <<write>>
                b == <<close, open>>
                c == <<write, close, open>>
    <2>1. /\ a \in Seq(CallRecord) /\ Len(a) = 1 /\ a[1] = write
          /\ b \in Seq(CallRecord) /\ Len(b) = 2 /\ b[1] = close /\ b[2] = open
          /\ c \in Seq(CallRecord) /\ Len(c) = 3 /\ c[1] = write /\ c[2] = close /\ c[3] = open
      BY <1>3, <1>5
    <2>. HIDE DEF a, b, c
    <2>2. /\ a \o b \in Seq(CallRecord) /\ Len(a \o b) = Len(a) + Len(b)
          /\ \A i \in 1 .. Len(a) + Len(b) :
                (a \o b)[i] = IF i <= Len(a) THEN a[i] ELSE b[i - Len(a)]
      BY <2>1, ConcatProperties
    <2>3. \A i \in 1 .. 3 : (a \o b)[i] = c[i]
      BY <2>1, <2>2
    <2>4. a \o b = c
      BY <2>1, <2>2, <2>3, SeqEqual
    <2>. QED BY <2>4 DEF a, b, c
  <1>8. <<write>> \o <<>> = <<write>>
    BY <1>3
  <1>9. PrepareHelper = IF replaces THEN <<write, close, open>> ELSE <<write>>
    BY <1>6, <1>7, <1>8
  <1>. QED BY <1>2, <1>3, <1>5, <1>9 DEF rows, close, open, write

LEMMA PlanIs ==
    ASSUME RingTypes, BatchKnown, batch # <<>>, NEW n \in Nat
    PROVE  /\ PlanOf(n) \in Seq(CallRecord) /\ Len(PlanOf(n)) \in 1 .. Len(PlanOf(n))
           /\ PlanOf(n)[Len(PlanOf(n))] = Enter
           /\ \A p \in 1 .. Len(PlanOf(n)) - 1 : PlanOf(n)[p].call # "enter"
           /\ mode = "shared" =>
                /\ Len(PlanOf(n)) = 4 * Len(batch) + 1
                /\ \A k \in DOMAIN batch, m \in 1 .. 4 :
                      PlanOf(n)[4 * (k - 1) + m] = Block(k, n)[m]
           /\ mode = "helper" =>
                /\ Len(PlanOf(n)) = IF replaces THEN 4 ELSE 2
                /\ PlanOf(n)[1] = WriteOf(SqeRows(1, 1))
                /\ replaces => /\ PlanOf(n)[2] = [Call("close") EXCEPT !.fd = FileFd]
                               /\ PlanOf(n)[3] = [Call("open") EXCEPT !.fd = FileFd, !.file = "replacement"]
  <1>0. /\ Len(batch) \in Nat /\ DOMAIN batch = 1 .. Len(batch) /\ mode \in {"shared", "helper"}
    BY LenProperties DEF BatchKnown, RingTypes
  <1>1. Enter \in CallRecord
    BY EnterIs
  <1>2. \A s \in Seq(CallRecord) :
           /\ s \o <<Enter>> \in Seq(CallRecord) /\ Len(s \o <<Enter>>) = Len(s) + 1
           /\ Len(s) \in Nat
           /\ \A p \in 1 .. Len(s) : (s \o <<Enter>>)[p] = s[p]
           /\ (s \o <<Enter>>)[Len(s) + 1] = Enter
    <2>1. /\ <<Enter>> \in Seq(CallRecord) /\ Len(<<Enter>>) = 1 /\ <<Enter>>[1] = Enter
      BY <1>1
    <2>. TAKE s \in Seq(CallRecord)
    <2>. DEFINE w == <<Enter>>
    <2>. HIDE DEF w
    <2>2. /\ s \o w \in Seq(CallRecord) /\ Len(s \o w) = Len(s) + Len(w) /\ Len(s) \in Nat
          /\ \A q \in 1 .. Len(s) + Len(w) : (s \o w)[q] = IF q <= Len(s) THEN s[q] ELSE w[q - Len(s)]
      BY <2>1, ConcatProperties, LenProperties DEF w
    <2>3. \A p \in 1 .. Len(s) : p \in 1 .. Len(s) + 1 /\ p <= Len(s)
      BY <2>2
    <2>4. Len(s) + 1 \in 1 .. Len(s) + 1 /\ ~(Len(s) + 1 <= Len(s)) /\ (Len(s) + 1) - Len(s) = 1
      BY <2>2
    <2>5. Len(w) = 1 /\ w[1] = Enter
      BY <2>1 DEF w
    <2>6. /\ \A p \in 1 .. Len(s) : (s \o w)[p] = s[p]
          /\ (s \o w)[Len(s) + 1] = Enter
      BY <2>2, <2>3, <2>4, <2>5
    <2>. QED BY <2>2, <2>5, <2>6 DEF w
  <1>3. CASE mode = "shared"
    <2>. DEFINE s == Prepare(n)
    <2>1. /\ s \in Seq(CallRecord) /\ Len(s) = 4 * Len(batch)
          /\ \A k \in DOMAIN batch, m \in 1 .. 4 : s[4 * (k - 1) + m] = Block(k, n)[m]
      BY PrepareIs
    <2>2. PlanOf(n) = s \o <<Enter>>
      BY <1>3 DEF PlanOf
    <2>. HIDE DEF s
    <2>3. /\ PlanOf(n) \in Seq(CallRecord) /\ Len(PlanOf(n)) = 4 * Len(batch) + 1
          /\ \A p \in 1 .. 4 * Len(batch) : PlanOf(n)[p] = s[p]
          /\ PlanOf(n)[4 * Len(batch) + 1] = Enter
      <3>. DEFINE w == <<Enter>>
      <3>1. /\ s \o w \in Seq(CallRecord) /\ Len(s \o w) = Len(s) + 1
            /\ \A p \in 1 .. Len(s) : (s \o w)[p] = s[p]
            /\ (s \o w)[Len(s) + 1] = Enter
        BY <1>2, <2>1, Zenon
      <3>. HIDE DEF w
      <3>. QED BY ONLY <2>1, <2>2, <3>1 DEF w
    <2>4. \A k \in DOMAIN batch, m \in 1 .. 4 : PlanOf(n)[4 * (k - 1) + m] = Block(k, n)[m]
      <3>. TAKE k \in DOMAIN batch, m \in 1 .. 4
      <3>1. 4 * (k - 1) + m \in 1 .. 4 * Len(batch)
        BY <1>0
      <3>. QED BY <2>1, <2>3, <3>1
    <2>5. ASSUME NEW p \in 1 .. 4 * Len(batch)
          PROVE  PlanOf(n)[p].call # "enter"
      <3>1. PICK k \in 1 .. Len(batch), m \in 1 .. 4 : p = 4 * (k - 1) + m
        BY <1>0, PositionIs, Zenon
      <3>2. PlanOf(n)[p] = Block(k, n)[m]
        BY <1>0, <2>4, <3>1
      <3>3. /\ batch[k] \in Nat /\ <<SqeRows(k, n)[1]>> \in Seq(RowRecord)
            /\ <<SqeRows(k, n)[2]>> \in Seq(RowRecord)
        BY <1>0, IdsOfBatch, SubmissionRow
      <3>4. /\ WriteOf(<<SqeRows(k, n)[1]>>).call = "write"
            /\ WriteOf(<<SqeRows(k, n)[2]>>).call = "write"
            /\ MarkerOf("IPC_ENTER", batch[k]).call = "IPC_ENTER"
            /\ MarkerOf("IPC_LEAVE", batch[k]).call = "IPC_LEAVE"
        BY <3>3, CallKinds
      <3>5. Block(k, n)[m].call \in {"write", "IPC_ENTER", "IPC_LEAVE"}
        <4>1. m = 1 \/ m = 2 \/ m = 3 \/ m = 4
          OBVIOUS
        <4>. QED BY <3>4, <4>1 DEF Block
      <3>. QED BY <3>2, <3>5
    <2>6. (4 * Len(batch) + 1) - 1 = 4 * Len(batch)
          /\ 4 * Len(batch) + 1 \in 1 .. 4 * Len(batch) + 1
      BY <1>0
    <2>. QED BY <1>3, <2>3, <2>4, <2>5, <2>6
  <1>4. CASE mode = "helper"
    <2>. DEFINE s == PrepareHelper
                close == [Call("close") EXCEPT !.fd = FileFd]
                open == [Call("open") EXCEPT !.fd = FileFd, !.file = "replacement"]
                write == WriteOf(SqeRows(1, 1))
    <2>1. /\ s = IF replaces THEN <<write, close, open>> ELSE <<write>>
          /\ write \in CallRecord /\ close \in CallRecord /\ open \in CallRecord
          /\ write.call = "write" /\ close.call = "close" /\ open.call = "open"
      BY HelperPlan
    <2>2. PlanOf(n) = s \o <<Enter>>
      BY <1>4 DEF PlanOf
    <2>. HIDE DEF s, close, open, write
    <2>3. /\ s \in Seq(CallRecord) /\ Len(s) = (IF replaces THEN 3 ELSE 1)
          /\ s[1] = write /\ (replaces => s[2] = close /\ s[3] = open)
      BY <2>1
    <2>4. /\ PlanOf(n) \in Seq(CallRecord) /\ Len(PlanOf(n)) = Len(s) + 1
          /\ \A p \in 1 .. Len(s) : PlanOf(n)[p] = s[p]
          /\ PlanOf(n)[Len(s) + 1] = Enter
      BY <1>2, <2>2, <2>3
    <2>5. CASE replaces
      <3>1. /\ PlanOf(n)[1] = write /\ PlanOf(n)[2] = close /\ PlanOf(n)[3] = open
            /\ Len(PlanOf(n)) = 4 /\ PlanOf(n)[4] = Enter
        BY <2>3, <2>4, <2>5
      <3>2. \A p \in 1 .. 4 - 1 : p = 1 \/ p = 2 \/ p = 3
        OBVIOUS
      <3>3. \A p \in 1 .. 4 - 1 : PlanOf(n)[p].call # "enter"
        BY <2>1, <3>1, <3>2
      <3>4. 4 \in 1 .. 4
        OBVIOUS
      <3>. QED BY <1>4, <2>4, <2>5, <3>1, <3>3, <3>4 DEF close, open, write
    <2>6. CASE ~replaces
      <3>1. /\ PlanOf(n)[1] = write /\ Len(PlanOf(n)) = 2 /\ PlanOf(n)[2] = Enter
        BY <2>3, <2>4, <2>6
      <3>2. \A p \in 1 .. 2 - 1 : p = 1
        OBVIOUS
      <3>. QED BY <1>4, <2>1, <2>4, <2>6, <3>1, <3>2 DEF write
    <2>. QED BY <2>5, <2>6
  <1>. QED BY <1>0, <1>3, <1>4

-----------------------------------------------------------------------------
(* Where the calls that are about to be made stand. *)
LEMMA HeadIs ==
    ASSUME RingTypes, BatchKnown, HelperKnown, TodoKnown, todo # <<>>
    PROVE  /\ Running
           /\ Head(todo) \in CallRecord /\ Tail(todo) \in Seq(CallRecord)
           /\ Len(Tail(todo)) = Len(todo) - 1
           /\ at \in {"gathering", "submitting", "draining", "failed", "succeeded"}
           /\ at = "gathering" => /\ \/ todo = Opens /\ Head(todo) = Opens[1]
                                     \/ todo = Tail(Opens) /\ Head(todo) = Opens[2]
                                  /\ Tail(todo) \in {Tail(Opens), <<>>}
                                  /\ taken = 0 /\ number = 0 /\ batch = <<>>
           /\ at = "submitting" =>
                /\ Made \in 0 .. Len(Plan) - 1 /\ Head(todo) = Plan[Made + 1]
                /\ Len(Plan) \in Nat /\ Len(todo) = Len(Plan) - Made
                /\ Head(todo).call # "enter" => Made + 1 < Len(Plan)
                /\ \A i \in 1 .. Len(todo) - 1 : Tail(todo)[i] = Plan[Made + 1 + i]
           /\ at = "draining" => /\ mode = "shared" /\ seen # <<>> /\ Tail(todo) = <<>>
                                 /\ Head(todo) = WriteOf(<<seen[Len(seen)]>>)
           /\ at \in {"failed", "succeeded"} => /\ mode = "helper" /\ Tail(todo) = <<>>
                                                /\ Head(todo) = WriteOf(seen)
  <1>1. Running /\ at \in {"gathering", "submitting", "draining", "failed", "succeeded"}
    BY DEF TodoKnown, RingTypes, Stages
  <1>2. /\ Head(todo) \in CallRecord /\ Tail(todo) \in Seq(CallRecord)
        /\ Len(Tail(todo)) = Len(todo) - 1 /\ Len(todo) \in Nat /\ Len(todo) # 0
        /\ DOMAIN todo = 1 .. Len(todo) /\ Head(todo) = todo[1]
        /\ \A q \in 1 .. Len(todo) - 1 : Tail(todo)[q] = todo[q + 1]
    BY TailSet, LenProperties, EmptySeq DEF RingTypes
  <1>3. \A x : Head(<<x>>) = x /\ Tail(<<x>>) = <<>>
    OBVIOUS
  <1>4. at = "gathering" => /\ \/ todo = Opens /\ Head(todo) = Opens[1]
                               \/ todo = Tail(Opens) /\ Head(todo) = Opens[2]
                            /\ Tail(todo) \in {Tail(Opens), <<>>}
                            /\ taken = 0 /\ number = 0 /\ batch = <<>>
    <2>. SUFFICES ASSUME at = "gathering" PROVE
                /\ \/ todo = Opens /\ Head(todo) = Opens[1]
                   \/ todo = Tail(Opens) /\ Head(todo) = Opens[2]
                /\ Tail(todo) \in {Tail(Opens), <<>>}
      BY DEF TodoKnown
    <2>1. \A x, y : Tail(<<x, y>>) = <<y>> /\ Head(<<x, y>>) = x /\ <<x, y>>[1] = x
                    /\ <<x, y>>[2] = y
      OBVIOUS
    <2>2. \E x, y : Opens = <<x, y>>
      BY DEF Opens
    <2>3. PICK x, y : Opens = <<x, y>>
      BY <2>2
    <2>4. todo \in {Opens, Tail(Opens)}
      BY DEF TodoKnown
    <2>5. /\ Opens[1] = x /\ Opens[2] = y /\ Head(Opens) = x
          /\ Head(Tail(Opens)) = y /\ Tail(Tail(Opens)) = <<>>
      BY ONLY <1>3, <2>1, <2>3
    <2>. QED BY <2>4, <2>5
  <1>5. at = "submitting" =>
                /\ Made \in 0 .. Len(Plan) - 1 /\ Head(todo) = Plan[Made + 1]
                /\ Len(Plan) \in Nat /\ Len(todo) = Len(Plan) - Made
                /\ Head(todo).call # "enter" => Made + 1 < Len(Plan)
                /\ \A i \in 1 .. Len(todo) - 1 : Tail(todo)[i] = Plan[Made + 1 + i]
    <2>. SUFFICES ASSUME at = "submitting" PROVE
                /\ Made \in 0 .. Len(Plan) - 1 /\ Head(todo) = Plan[Made + 1]
                /\ Len(Plan) \in Nat /\ Len(todo) = Len(Plan) - Made
                /\ Head(todo).call # "enter" => Made + 1 < Len(Plan)
                /\ \A i \in 1 .. Len(todo) - 1 : Tail(todo)[i] = Plan[Made + 1 + i]
      OBVIOUS
    <2>1. /\ Len(todo) \in 1 .. Len(Plan)
          /\ \A i \in 1 .. Len(todo) : todo[i] = Plan[Made + i]
      BY <1>1, <1>2 DEF TodoKnown
    <2>2. /\ Plan \in Seq(CallRecord) /\ Len(Plan) \in Nat /\ Plan[Len(Plan)] = Enter
          /\ Enter.call = "enter"
      <3>1. batch # <<>> /\ number \in Nat
        BY DEF BatchKnown, RingTypes
      <3>2. Plan \in Seq(CallRecord) /\ Plan[Len(Plan)] = Enter
        BY <3>1, PlanIs DEF Plan
      <3>. QED BY <3>2, EnterIs, LenProperties
    <2>3. Made \in 0 .. Len(Plan) - 1 /\ Len(todo) = Len(Plan) - Made
      BY <1>2, <2>1, <2>2 DEF Made
    <2>4. Head(todo) = Plan[Made + 1]
      BY <1>2, <2>1
    <2>5. Head(todo).call # "enter" => Made + 1 < Len(Plan)
      BY <2>2, <2>3, <2>4
    <2>6. ASSUME NEW i \in 1 .. Len(todo) - 1
          PROVE  Tail(todo)[i] = Plan[Made + 1 + i]
      <3>1. i + 1 \in 1 .. Len(todo) /\ Made + (i + 1) = Made + 1 + i
        BY <1>2, <2>2, <2>3
      <3>. QED BY <1>2, <2>1, <3>1
    <2>. QED BY <2>2, <2>3, <2>4, <2>5, <2>6
  <1>6. at = "draining" => /\ mode = "shared" /\ seen # <<>> /\ Tail(todo) = <<>>
                           /\ Head(todo) = WriteOf(<<seen[Len(seen)]>>)
    BY <1>3 DEF TodoKnown
  <1>7. at \in {"failed", "succeeded"} => /\ mode = "helper" /\ Tail(todo) = <<>>
                                          /\ Head(todo) = WriteOf(seen)
    BY <1>3 DEF TodoKnown, HelperKnown
  <1>. QED BY <1>1, <1>2, <1>4, <1>5, <1>6, <1>7

(* A file is opened, closed or replaced while the ring has nothing. *)
LEMMA FilesAreEarly ==
    ASSUME RingTypes, BatchKnown, HelperKnown, TodoKnown, OperationsKnown,
           todo # <<>>, Head(todo).call \in {"open", "close"}
    PROVE  truth = {} /\ inflight = {} /\ at \in {"gathering", "submitting"}
  <1>1. CASE at = "gathering"
    <2>1. taken = 0 /\ inflight = {}
      BY <1>1, HeadIs DEF OperationsKnown
    <2>2. truth = {}
      BY <2>1 DEF OperationsKnown
    <2>. QED BY <1>1, <2>1, <2>2
  <1>2. CASE at = "submitting"
    <2>0. inflight = {}
      BY <1>2 DEF OperationsKnown
    <2>1. mode = "helper"
      <3>. SUFFICES ASSUME mode = "shared" PROVE FALSE
        BY DEF RingTypes
      <3>0. mode = "shared"
        OBVIOUS
      <3>1. batch # <<>> /\ number \in Nat /\ Len(batch) \in Nat /\ DOMAIN batch = 1 .. Len(batch)
        BY <1>2, LenProperties DEF BatchKnown, RingTypes
      <3>2. /\ Made \in 0 .. Len(Plan) - 1 /\ Head(todo) = Plan[Made + 1]
            /\ Made + 1 < Len(Plan) /\ Len(Plan) = 4 * Len(batch) + 1
        BY <1>2, <3>0, <3>1, HeadIs, PlanIs DEF Plan
      <3>3. Made + 1 \in 1 .. 4 * Len(batch)
        BY <3>1, <3>2
      <3>4. PICK k \in 1 .. Len(batch), m \in 1 .. 4 : Made + 1 = 4 * (k - 1) + m
        BY <3>1, <3>3, PositionIs, Zenon
      <3>5. Head(todo) = Block(k, number)[m]
        <4>1. Plan[4 * (k - 1) + m] = Block(k, number)[m]
          BY <3>0, <3>1, PlanIs DEF Plan
        <4>. QED BY <3>2, <3>4, <4>1
      <3>6. /\ batch[k] \in Nat /\ <<SqeRows(k, number)[1]>> \in Seq(RowRecord)
            /\ <<SqeRows(k, number)[2]>> \in Seq(RowRecord)
        BY <3>1, IdsOfBatch, SubmissionRow
      <3>7. /\ WriteOf(<<SqeRows(k, number)[1]>>).call = "write"
            /\ WriteOf(<<SqeRows(k, number)[2]>>).call = "write"
            /\ MarkerOf("IPC_ENTER", batch[k]).call = "IPC_ENTER"
            /\ MarkerOf("IPC_LEAVE", batch[k]).call = "IPC_LEAVE"
        BY <3>6, CallKinds
      <3>8. m = 1 \/ m = 2 \/ m = 3 \/ m = 4
        OBVIOUS
      <3>. QED BY <3>5, <3>7, <3>8 DEF Block
    <2>2. taken - Len(batch) = 0 /\ Len(batch) \in Nat
      BY <2>1, LenProperties DEF HelperKnown, BatchKnown
    <2>3. truth = {}
      <3>. SUFFICES ASSUME NEW t \in truth PROVE FALSE
        OBVIOUS
      <3>1. PICK j \in 1 .. taken : t.job = j
        BY DEF OperationsKnown, Outcome
      <3>2. t.job <= 0
        BY <1>2, <2>2 DEF OperationsKnown
      <3>. QED BY <3>1, <3>2 DEF RingTypes
    <2>. QED BY <1>2, <2>0, <2>3
  <1>3. CASE at \in {"draining", "failed", "succeeded"}
    <2>1. Head(todo).call = "write"
      <3>1. seen \in Seq(RowRecord)
        BY DEF RingTypes
      <3>2. seen # <<>> => <<seen[Len(seen)]>> \in Seq(RowRecord)
        BY <3>1, LastOf
      <3>. QED BY <1>3, <3>1, <3>2, HeadIs, CallKinds
    <2>. QED BY <2>1
  <1>. QED BY <1>1, <1>2, <1>3, HeadIs

-----------------------------------------------------------------------------
(* The calls of the program leave the ring alone. *)
LEMMA KernelFrame ==
    ASSUME KernelInv, RingTypes', TodoKnown',
           UNCHANGED <<mode, replaces, taken, at, batch, number, kernel, seen, answered>>,
           mode = "helper" => UNCHANGED <<sent, ended>>,
           file' = file \/ (truth = {} /\ inflight = {})
    PROVE  KernelInv'
  <1>1. /\ mode' = mode /\ replaces' = replaces
        /\ mode = "helper" => sent' = sent /\ ended' = ended
        /\ taken' = taken /\ at' = at /\ batch' = batch /\ number' = number
        /\ inflight' = inflight /\ cq' = cq /\ truth' = truth /\ seen' = seen
        /\ answered' = answered
    BY DEF kernel
  <1>2. BatchKnown' /\ HelperKnown'
    BY <1>1 DEF KernelInv, BatchKnown, HelperKnown
  <1>3. OperationsKnown'
    <2>1. CASE file' = file
      <3>1. \A j, i : Operation(j, i)' = Operation(j, i)
        BY <2>1 DEF Operation
      <3>2. \A j, i, r : Outcome(j, i, r)' = Outcome(j, i, r)
        BY <2>1 DEF Outcome
      <3>. QED BY <1>1, <2>1 DEF KernelInv, OperationsKnown, Operation, Outcome
    <2>2. CASE truth = {} /\ inflight = {}
      BY <1>1, <2>2 DEF KernelInv, OperationsKnown
    <2>. QED BY <2>1, <2>2
  <1>4. CompletionsKnown'
    BY <1>1 DEF KernelInv, CompletionsKnown, BatchIds, AllReaped
  <1>5. AnsweredIsPerformed'
    BY <1>1 DEF KernelInv, AnsweredIsPerformed
  <1>. QED BY <1>2, <1>3, <1>4, <1>5 DEF KernelInv

LEMMA EffectsTypes ==
    ASSUME RingTypes, NEW e \in CallRecord, Effects(e)
    PROVE  /\ sidecar' \in Seq(RowRecord) /\ native' \in Seq(CallRecord) /\ file' \in Files
           /\ e.call \notin {"open", "close"} => file' = file
  <1>1. /\ sidecar \in Seq(RowRecord) /\ native \in Seq(CallRecord) /\ file \in Files
        /\ e.rows \in Seq(RowRecord) /\ e.file \in Files /\ NoFile \in Files
    BY DEF RingTypes, CallRecord, Files
  <1>2. sidecar \o e.rows \in Seq(RowRecord)
    BY <1>1, ConcatProperties
  <1>3. Append(native, e) \in Seq(CallRecord)
    BY <1>1
  <1>. QED BY <1>1, <1>2, <1>3 DEF Effects

LEMMA PlanSame ==
    ASSUME UNCHANGED <<mode, replaces, taken, batch, number>>
    PROVE  Plan' = Plan
  BY DEF Plan, PlanOf, Prepare, PrepareHelper, SqeRows, Ids, Enter

LEMMA PerformKernel ==
    ASSUME KernelInv, Perform
    PROVE  KernelInv'
  <1>. DEFINE e == Head(todo)
  <1>0. RingTypes /\ BatchKnown /\ HelperKnown /\ TodoKnown /\ OperationsKnown
    BY DEF KernelInv
  <1>1. /\ Running /\ todo # <<>> /\ e.call # "enter" /\ Effects(e) /\ todo' = Tail(todo)
        /\ trace' = Append(trace, e) \/ trace' = trace
    BY DEF Perform, Recorded, Missed
  <1>2. /\ mode' = mode /\ idle' = idle /\ replaces' = replaces /\ sent' = sent /\ ended' = ended
        /\ taken' = taken /\ at' = at /\ batch' = batch /\ number' = number /\ kernel' = kernel
        /\ cq' = cq /\ seen' = seen /\ exit' = exit /\ answered' = answered
    BY DEF Perform, started, input, kernel
  <1>3. /\ e \in CallRecord /\ Tail(todo) \in Seq(CallRecord) /\ Len(Tail(todo)) = Len(todo) - 1
    BY <1>0, <1>1, HeadIs
  <1>4. /\ sidecar' \in Seq(RowRecord) /\ native' \in Seq(CallRecord) /\ file' \in Files
        /\ e.call \notin {"open", "close"} => file' = file
    BY <1>0, <1>1, <1>3, EffectsTypes
  <1>5. RingTypes'
    <2>1. trace' \in Seq(CallRecord)
      <3>1. trace \in Seq(CallRecord)
        BY <1>0 DEF RingTypes
      <3>. HIDE DEF e
      <3>2. Append(trace, e) \in Seq(CallRecord)
        BY <1>3, <3>1, AppendProperties
      <3>. QED BY <1>1, <3>1, <3>2
    <2>. QED BY <1>0, <1>1, <1>2, <1>3, <1>4, <2>1 DEF RingTypes
  <1>6. TodoKnown'
    <2>1. CASE at = "gathering"
      <3>1. Tail(todo) \in {Tail(Opens), <<>>} /\ taken = 0 /\ number = 0 /\ batch = <<>>
        BY <1>0, <1>1, <2>1, HeadIs
      <3>2. Opens' = Opens
        BY <1>2 DEF Opens
      <3>. QED BY <1>1, <1>2, <2>1, <3>1, <3>2 DEF TodoKnown, Running
    <2>2. CASE at = "submitting"
      <3>1. /\ Made \in 0 .. Len(Plan) - 1 /\ Len(Plan) \in Nat /\ Len(todo) = Len(Plan) - Made
            /\ Made + 1 < Len(Plan)
            /\ \A i \in 1 .. Len(todo) - 1 : Tail(todo)[i] = Plan[Made + 1 + i]
        BY <1>0, <1>1, <2>2, HeadIs
      <3>2. Plan' = Plan
        BY <1>2, PlanSame
      <3>3. Made' = Made + 1
        BY <1>1, <1>3, <3>1, <3>2 DEF Made
      <3>4. DOMAIN todo' = 1 .. Len(todo) - 1 /\ Len(todo') \in 1 .. Len(Plan)
        BY <1>1, <1>3, <3>1, LenProperties
      <3>5. \A i \in DOMAIN todo' : todo'[i] = Plan'[Made' + i]
        BY <1>1, <3>1, <3>2, <3>3, <3>4
      <3>. QED BY <1>1, <1>2, <2>2, <3>2, <3>4, <3>5 DEF TodoKnown, Running
    <2>3. CASE at \in {"draining", "failed", "succeeded"}
      <3>1. Tail(todo) = <<>>
        BY <1>0, <1>1, <2>3, HeadIs
      <3>. QED BY <1>1, <1>2, <2>3, <3>1 DEF TodoKnown, Running
    <2>. QED BY <1>0, <1>1, <2>1, <2>2, <2>3, HeadIs
  <1>7. file' = file \/ (truth = {} /\ inflight = {})
    BY <1>0, <1>1, <1>4, FilesAreEarly
  <1>. QED BY <1>2, <1>5, <1>6, <1>7, KernelFrame

LEMMA TornKernel ==
    ASSUME KernelInv, Torn
    PROVE  KernelInv'
  <1>. DEFINE e == Head(todo)
              short == [e EXCEPT !.result = "short"]
  <1>0. RingTypes /\ BatchKnown /\ HelperKnown /\ TodoKnown /\ OperationsKnown
    BY DEF KernelInv
  <1>1. /\ Running /\ todo # <<>> /\ exit' = "1" /\ todo' = <<>> /\ trace' = Append(trace, short)
        /\ sidecar' = IF e.call = "write" THEN Append(sidecar, Row("torn", 0, "", 0, "", 0))
                      ELSE sidecar
        /\ native' = IF e.call \in Markers THEN Append(native, Call("torn")) ELSE native
    BY DEF Torn
  <1>2. /\ mode' = mode /\ idle' = idle /\ replaces' = replaces /\ sent' = sent /\ ended' = ended
        /\ taken' = taken /\ at' = at /\ batch' = batch /\ number' = number /\ kernel' = kernel
        /\ cq' = cq /\ seen' = seen /\ answered' = answered /\ file' = file
    BY DEF Torn, started, input, kernel
  <1>3. e \in CallRecord
    BY <1>0, <1>1, HeadIs
  <1>4. short \in CallRecord
    <2>. HIDE DEF e
    <2>. QED BY <1>3 DEF CallRecord
  <1>5. Row("torn", 0, "", 0, "", 0) \in RowRecord /\ Call("torn") \in CallRecord
    <2>1. Row("torn", 0, "", 0, "", 0) \in RowRecord
      BY DEF Row, RowRecord
    <2>. QED BY <2>1, CallKinds DEF CallNames
  <1>6. RingTypes'
    <2>0. /\ trace \in Seq(CallRecord) /\ sidecar \in Seq(RowRecord)
          /\ native \in Seq(CallRecord)
      BY <1>0 DEF RingTypes
    <2>1. trace' \in Seq(CallRecord) /\ sidecar' \in Seq(RowRecord) /\ native' \in Seq(CallRecord)
      <3>. HIDE DEF e, short
      <3>1. /\ Append(trace, short) \in Seq(CallRecord)
            /\ Append(sidecar, Row("torn", 0, "", 0, "", 0)) \in Seq(RowRecord)
            /\ Append(native, Call("torn")) \in Seq(CallRecord)
        BY <1>4, <1>5, <2>0, AppendProperties
      <3>. QED BY <1>1, <2>0, <3>1
    <2>2. todo' \in Seq(CallRecord)
      <3>1. <<>> \in Seq(CallRecord)
        OBVIOUS
      <3>. QED BY <1>1, <3>1
    <2>. QED BY <1>0, <1>1, <1>2, <2>1, <2>2 DEF RingTypes
  <1>7. TodoKnown'
    BY <1>1, <1>2 DEF TodoKnown, Running
  <1>. QED BY <1>2, <1>6, <1>7, KernelFrame

LEMMA KilledKernel ==
    ASSUME KernelInv, Killed
    PROVE  KernelInv'
  <1>. DEFINE e == Head(todo)
              unknown == [e EXCEPT !.result = "unknown"]
              enter == [Call("enter") EXCEPT !.result = "unknown"]
  <1>0. RingTypes /\ BatchKnown /\ HelperKnown /\ TodoKnown /\ OperationsKnown
    BY DEF KernelInv
  <1>1. /\ Running /\ exit' = "killed" /\ todo' = <<>>
        /\ \/ UNCHANGED <<output, file>>
           \/ /\ todo # <<>> /\ e.call # "enter" /\ trace' = Append(trace, unknown)
              /\ Effects(e) \/ UNCHANGED <<sidecar, native, file>>
           \/ /\ trace' = Append(trace, enter) /\ UNCHANGED <<sidecar, native, file>>
    BY DEF Killed
  <1>2. /\ mode' = mode /\ idle' = idle /\ replaces' = replaces /\ sent' = sent /\ ended' = ended
        /\ taken' = taken /\ at' = at /\ batch' = batch /\ number' = number /\ kernel' = kernel
        /\ cq' = cq /\ seen' = seen /\ answered' = answered
    BY DEF Killed, started, input, kernel
  <1>3. todo # <<>> => e \in CallRecord
    BY <1>0, HeadIs
  <1>4. /\ todo # <<>> => unknown \in CallRecord
        /\ enter \in CallRecord
    <2>1. Call("enter") \in CallRecord
      BY CallKinds DEF CallNames
    <2>. HIDE DEF e
    <2>. QED BY <1>3, <2>1 DEF CallRecord
  <1>5. /\ trace' \in Seq(CallRecord) /\ sidecar' \in Seq(RowRecord) /\ native' \in Seq(CallRecord)
        /\ file' \in Files
        /\ file' = file \/ (todo # <<>> /\ e.call \in {"open", "close"})
    <2>0. /\ trace \in Seq(CallRecord) /\ sidecar \in Seq(RowRecord) /\ native \in Seq(CallRecord)
          /\ file \in Files
      BY <1>0 DEF RingTypes
    <2>. HIDE DEF e, unknown, enter
    <2>1. CASE UNCHANGED <<output, file>>
      <3>1. trace' = trace /\ sidecar' = sidecar /\ native' = native /\ file' = file
        BY <2>1 DEF output
      <3>. QED BY <2>0, <3>1
    <2>2. CASE /\ todo # <<>> /\ e.call # "enter" /\ trace' = Append(trace, unknown)
               /\ Effects(e) \/ UNCHANGED <<sidecar, native, file>>
      <3>1. trace' \in Seq(CallRecord)
        BY <1>4, <2>0, <2>2, AppendProperties
      <3>2. CASE Effects(e)
        <4>1. /\ sidecar' \in Seq(RowRecord) /\ native' \in Seq(CallRecord) /\ file' \in Files
              /\ e.call \notin {"open", "close"} => file' = file
          BY <1>0, <1>3, <2>2, <3>2, EffectsTypes
        <4>. QED BY <2>2, <3>1, <4>1
      <3>3. CASE UNCHANGED <<sidecar, native, file>>
        <4>1. sidecar' = sidecar /\ native' = native /\ file' = file
          BY <3>3
        <4>. QED BY <2>0, <3>1, <4>1
      <3>. QED BY <2>2, <3>2, <3>3
    <2>3. CASE trace' = Append(trace, enter) /\ UNCHANGED <<sidecar, native, file>>
      <3>1. sidecar' = sidecar /\ native' = native /\ file' = file
        BY <2>3
      <3>2. Append(trace, enter) \in Seq(CallRecord)
        BY <1>4, <2>0, AppendProperties
      <3>. QED BY <2>0, <2>3, <3>1, <3>2
    <2>. QED BY <1>1, <2>1, <2>2, <2>3
  <1>6. RingTypes'
    <2>1. todo' \in Seq(CallRecord)
      BY <1>1
    <2>. QED BY <1>0, <1>1, <1>2, <1>5, <2>1 DEF RingTypes
  <1>7. TodoKnown'
    BY <1>1, <1>2 DEF TodoKnown, Running
  <1>8. file' = file \/ (truth = {} /\ inflight = {})
    BY <1>0, <1>5, FilesAreEarly
  <1>. QED BY <1>2, <1>6, <1>7, <1>8, KernelFrame

LEMMA SameTodo ==
    ASSUME TodoKnown, UNCHANGED <<mode, replaces, taken, at, todo, batch, number, seen, exit>>
    PROVE  TodoKnown'
  <1>1. /\ mode' = mode /\ taken' = taken /\ at' = at /\ todo' = todo /\ batch' = batch
        /\ number' = number /\ seen' = seen /\ exit' = exit
    OBVIOUS
  <1>2. Plan' = Plan
    BY PlanSame
  <1>3. Made' = Made
    BY <1>1, <1>2 DEF Made
  <1>4. Opens' = Opens
    BY <1>1 DEF Opens
  <1>. HIDE DEF Plan, Made, Opens
  <1>. QED BY <1>1, <1>2, <1>3, <1>4 DEF TodoKnown, Running

LEMMA DispatcherKernel ==
    ASSUME KernelInv, Dispatcher
    PROVE  KernelInv'
  <1>1. /\ ~ended
        /\ UNCHANGED <<mode, idle, replaces, taken, at, todo, batch, number, file, kernel, seen,
                       trace, sidecar, native, exit, answered>>
        /\ \/ sent' = sent + 1 /\ ended' = ended
           \/ sent' = sent /\ ended' = TRUE
    BY DEF Dispatcher, SendJob, CloseInput, started, output
  <1>2. mode # "helper"
    BY <1>1 DEF KernelInv, HelperKnown
  <1>3. RingTypes'
    <2>0. taken' = taken /\ taken \in Nat /\ sent \in Nat /\ taken <= sent /\ ended \in BOOLEAN
      BY <1>1 DEF KernelInv, RingTypes
    <2>1. CASE sent' = sent + 1 /\ ended' = ended
      <3>1. sent' \in Nat /\ taken' <= sent'
        BY <2>0, <2>1
      <3>. QED BY <1>1, <2>0, <2>1, <3>1 DEF KernelInv, RingTypes, kernel
    <2>2. CASE sent' = sent /\ ended' = TRUE
      BY <1>1, <2>0, <2>2 DEF KernelInv, RingTypes, kernel
    <2>. QED BY <1>1, <2>1, <2>2
  <1>4. TodoKnown'
    BY <1>1, SameTodo DEF KernelInv
  <1>. QED BY <1>1, <1>2, <1>3, <1>4, KernelFrame

LEMMA TakeKernel ==
    ASSUME KernelInv, Take
    PROVE  KernelInv'
  <1>0. RingTypes /\ BatchKnown /\ HelperKnown /\ TodoKnown /\ OperationsKnown
    BY DEF KernelInv
  <1>1. /\ Running /\ todo = <<>> /\ at = "gathering" /\ taken < sent
        /\ taken' = taken + 1 /\ batch' = Append(batch, taken + 1)
    BY DEF Take, Gathering
  <1>2. /\ mode' = mode /\ idle' = idle /\ replaces' = replaces /\ sent' = sent /\ ended' = ended
        /\ todo' = todo /\ at' = at /\ number' = number /\ file' = file /\ inflight' = inflight
        /\ cq' = cq /\ truth' = truth /\ seen' = seen /\ trace' = trace /\ sidecar' = sidecar
        /\ native' = native /\ exit' = exit /\ answered' = answered
    BY DEF Take, started, input, kernel, output
  <1>3. /\ batch \in Seq(Nat) /\ taken \in Nat /\ taken + 1 \in Nat /\ sent \in Nat
        /\ Len(batch) \in Nat /\ DOMAIN batch = 1 .. Len(batch) /\ Len(batch) <= taken
        /\ \A k \in 1 .. Len(batch) : batch[k] = taken - Len(batch) + k
    BY <1>0, LenProperties DEF RingTypes, BatchKnown
  <1>4. /\ batch' \in Seq(Nat) /\ Len(batch') = Len(batch) + 1
        /\ DOMAIN batch' = 1 .. Len(batch) + 1 /\ batch'[Len(batch) + 1] = taken + 1
        /\ \A k \in 1 .. Len(batch) : batch'[k] = batch[k]
    BY <1>1, <1>3, AppendProperties
  <1>5. RingTypes'
    BY <1>0, <1>1, <1>2, <1>3 DEF RingTypes
  <1>6. BatchKnown'
    <2>1. ASSUME NEW k \in DOMAIN batch' PROVE batch'[k] = taken' - Len(batch') + k
      <3>1. k \in 1 .. Len(batch) \/ k = Len(batch) + 1
        BY <1>3, <1>4
      <3>. QED BY <1>1, <1>3, <1>4, <3>1
    <2>. QED BY <1>1, <1>2, <1>3, <1>4, <2>1 DEF BatchKnown
  <1>7. HelperKnown'
    <2>1. mode = "helper" => taken' = Len(batch')
      BY <1>0, <1>1, <1>3, <1>4 DEF HelperKnown
    <2>. QED BY <1>0, <1>1, <1>2, <2>1 DEF HelperKnown
  <1>8. TodoKnown'
    BY <1>1, <1>2 DEF TodoKnown, Running
  <1>9. inflight = {} /\ cq = <<>> /\ seen = <<>>
        /\ \A t \in truth : t.job <= taken - Len(batch)
    BY <1>0, <1>1 DEF OperationsKnown
  <1>10. OperationsKnown'
    <2>1. taken' - Len(batch') = taken - Len(batch)
      BY <1>1, <1>3, <1>4
    <2>2. ASSUME NEW t \in truth
          PROVE  \E j \in 1 .. taken', i \in {1, 2} :
                    \E result \in {Expected(JobOps[i]), "error"} : t = Outcome(j, i, result)'
      <3>1. PICK j \in 1 .. taken, i \in {1, 2} :
                    \E result \in {Expected(JobOps[i]), "error"} : t = Outcome(j, i, result)
        BY <1>0 DEF OperationsKnown
      <3>2. j \in 1 .. taken'
        BY <1>1, <1>3
      <3>3. \A result : Outcome(j, i, result)' = Outcome(j, i, result)
        BY <1>2 DEF Outcome
      <3>. QED BY <3>1, <3>2, <3>3
    <2>3. \A t, u \in truth : t.id = u.id => t = u
      BY <1>0 DEF OperationsKnown
    <2>. QED BY <1>2, <1>9, <2>1, <2>2, <2>3 DEF OperationsKnown, Outcome
  <1>11. CompletionsKnown'
    <2>1. DOMAIN cq' = {} /\ DOMAIN seen' = {}
      BY <1>2, <1>9
    <2>2. at' # "succeeded"
      BY <1>1, <1>2
    <2>. QED BY <2>1, <2>2 DEF CompletionsKnown
  <1>12. AnsweredIsPerformed'
    BY <1>2 DEF KernelInv, AnsweredIsPerformed
  <1>. QED BY <1>5, <1>6, <1>7, <1>8, <1>10, <1>11, <1>12 DEF KernelInv

LEMMA SubmitKernel ==
    ASSUME KernelInv, Submit
    PROVE  KernelInv'
  <1>0. RingTypes /\ BatchKnown /\ HelperKnown /\ TodoKnown /\ OperationsKnown
        /\ CompletionsKnown
    BY DEF KernelInv
  <1>1. /\ Running /\ todo = <<>> /\ at = "gathering"
        /\ \/ exit' \in {"0", "1"} /\ at' = at /\ todo' = todo /\ number' = number
           \/ /\ batch # <<>> /\ number' = number + 1 /\ at' = "submitting" /\ exit' = exit
              /\ todo' = PlanOf(number + 1)
    BY DEF Submit, Gathering, PlanOf
  <1>2. /\ mode' = mode /\ idle' = idle /\ replaces' = replaces /\ sent' = sent /\ ended' = ended
        /\ taken' = taken /\ batch' = batch /\ file' = file /\ inflight' = inflight
        /\ cq' = cq /\ truth' = truth /\ seen' = seen /\ trace' = trace /\ sidecar' = sidecar
        /\ native' = native /\ answered' = answered
    BY DEF Submit, started, input, kernel, output
  <1>3. /\ inflight = {} /\ cq = <<>> /\ seen = <<>>
        /\ \A t \in truth : t.job <= taken - Len(batch)
    BY <1>0, <1>1 DEF OperationsKnown
  <1>4. OperationsKnown'
    <2>1. \A j, i, r : Outcome(j, i, r)' = Outcome(j, i, r)
      BY <1>2 DEF Outcome
    <2>. QED BY <1>0, <1>2, <1>3, <2>1 DEF OperationsKnown, Outcome
  <1>5. CompletionsKnown'
    <2>1. DOMAIN cq' = {} /\ DOMAIN seen' = {}
      BY <1>2, <1>3
    <2>2. at' # "succeeded"
      BY <1>1
    <2>. QED BY <2>1, <2>2 DEF CompletionsKnown
  <1>6. AnsweredIsPerformed'
    BY <1>2 DEF KernelInv, AnsweredIsPerformed
  <1>7. CASE exit' \in {"0", "1"} /\ at' = at /\ todo' = todo /\ number' = number
    <2>1. RingTypes'
      BY <1>0, <1>2, <1>7 DEF RingTypes
    <2>2. BatchKnown' /\ HelperKnown'
      BY <1>0, <1>2, <1>7 DEF BatchKnown, HelperKnown
    <2>3. TodoKnown'
      BY <1>1, <1>2, <1>7 DEF TodoKnown, Running
    <2>. QED BY <1>4, <1>5, <1>6, <2>1, <2>2, <2>3 DEF KernelInv
  <1>8. CASE /\ batch # <<>> /\ number' = number + 1 /\ at' = "submitting" /\ exit' = exit
             /\ todo' = PlanOf(number + 1)
    <2>1. number + 1 \in Nat /\ number \in Nat
      BY <1>0 DEF RingTypes
    <2>2. /\ PlanOf(number + 1) \in Seq(CallRecord)
          /\ PlanOf(number + 1)[Len(PlanOf(number + 1))] = Enter
          /\ Len(PlanOf(number + 1)) > 0
      BY <1>0, <1>8, <2>1, PlanIs
    <2>3. RingTypes'
      <3>1. at' \in Stages
        BY <1>8 DEF Stages
      <3>. QED BY <1>0, <1>2, <1>8, <2>1, <2>2, <3>1 DEF RingTypes
    <2>4. BatchKnown'
      BY <1>0, <1>2, <1>8 DEF BatchKnown
    <2>5. HelperKnown'
      BY <1>0, <1>1, <1>2, <1>8 DEF HelperKnown
    <2>6. Plan' = todo'
      <3>1. Plan' = PlanOf(number + 1)
        BY <1>2, <1>8 DEF Plan, PlanOf, Prepare, PrepareHelper, SqeRows, Ids, Enter
      <3>. QED BY <1>8, <3>1
    <2>7. TodoKnown'
      <3>1. Len(todo') \in Nat /\ Len(todo') > 0
        BY <1>8, <2>2, LenProperties
      <3>2. Made' = 0
        BY <2>6, <3>1 DEF Made
      <3>3. DOMAIN todo' = 1 .. Len(todo')
        BY <1>8, <2>2, LenProperties
      <3>4. \A i \in DOMAIN todo' : todo'[i] = Plan'[Made' + i]
        BY <2>6, <3>2, <3>3
      <3>5. Len(todo') \in 1 .. Len(Plan')
        BY <2>6, <3>1
      <3>6. Running'
        BY <1>1, <1>8 DEF Running
      <3>. QED BY <1>8, <3>4, <3>5, <3>6 DEF TodoKnown
    <2>. QED BY <1>4, <1>5, <1>6, <2>3, <2>4, <2>5, <2>7 DEF KernelInv
  <1>. QED BY <1>1, <1>7, <1>8

(* The operations that the kernel takes are those of the batch. *)
LEMMA SubmittedIs ==
    ASSUME RingTypes, BatchKnown, NEW n \in Nat, NEW o \in Submitted(n)
    PROVE  \E k \in DOMAIN batch, i \in {1, 2} : o = Operation(batch[k], i)
  <1>1. DOMAIN JobOps = {1, 2}
    BY DEF JobOps
  <1>2. PICK p \in (DOMAIN batch) \X {1, 2} :
           o = [id |-> Ids(p[1])[p[2]], op |-> JobOps[p[2]], job |-> batch[p[1]],
                file |-> IF JobOps[p[2]] = "read" THEN Invalid ELSE file]
    BY <1>1 DEF Submitted
  <1>3. PICK k \in DOMAIN batch, i \in {1, 2} : p[1] = k /\ p[2] = i
    BY <1>2
  <1>4. Ids(k)[i] = IdOf(batch[k], i)
    BY IdsOfBatch
  <1>. QED BY <1>2, <1>3, <1>4 DEF Operation

LEMMA EnterKernel ==
    ASSUME KernelInv, EnterRing
    PROVE  KernelInv'
  <1>0. RingTypes /\ BatchKnown /\ HelperKnown /\ TodoKnown /\ OperationsKnown
        /\ CompletionsKnown
    BY DEF KernelInv
  <1>1. /\ Running /\ at = "submitting" /\ todo' = <<>> /\ at' \in {"waiting", "short"}
        /\ inflight' \in {Submitted(Enter.count), Submitted(1)}
    BY DEF EnterRing
  <1>2. /\ mode' = mode /\ idle' = idle /\ replaces' = replaces /\ sent' = sent /\ ended' = ended
        /\ taken' = taken /\ batch' = batch /\ number' = number /\ file' = file
        /\ cq' = cq /\ truth' = truth /\ seen' = seen /\ trace' = trace /\ sidecar' = sidecar
        /\ native' = native /\ exit' = exit /\ answered' = answered
    BY DEF EnterRing, started, input, output
  <1>3. \A o \in inflight' : \E k \in DOMAIN batch, i \in {1, 2} : o = Operation(batch[k], i)
    <2>1. Enter.count \in Nat /\ 1 \in Nat
      BY <1>0, EnterIs, LenProperties DEF BatchKnown
    <2>. QED BY <1>0, <1>1, <2>1, SubmittedIs
  <1>4. /\ \A t \in truth : t.job <= taken - Len(batch)
        /\ cq = <<>> /\ seen = <<>>
    BY <1>0, <1>1 DEF OperationsKnown
  <1>5. RingTypes'
    <2>1. at' \in Stages
      BY <1>1 DEF Stages
    <2>2. todo' \in Seq(CallRecord)
      BY <1>1
    <2>. QED BY <1>0, <1>2, <2>1, <2>2 DEF RingTypes
  <1>6. BatchKnown' /\ HelperKnown'
    <2>1. at # "gathering" /\ at' \notin {"gathering", "failed", "succeeded"}
      BY <1>1
    <2>. QED BY <1>0, <1>2, <2>1 DEF BatchKnown, HelperKnown
  <1>7. TodoKnown'
    BY <1>1 DEF TodoKnown
  <1>8. OperationsKnown'
    <2>1. ASSUME NEW o \in inflight' PROVE \E k \in DOMAIN batch', i \in {1, 2} :
                                              o = Operation(batch[k], i)'
      <3>1. \A j, i : Operation(j, i)' = Operation(j, i)
        BY <1>2 DEF Operation
      <3>. QED BY <1>2, <1>3, <3>1 DEF Operation
    <2>2. ASSUME NEW t \in truth
          PROVE  \E j \in 1 .. taken, i \in {1, 2} :
                    \E result \in {Expected(JobOps[i]), "error"} : t = Outcome(j, i, result)'
      <3>1. \A j, i, r : Outcome(j, i, r)' = Outcome(j, i, r)
        BY <1>2 DEF Outcome
      <3>. QED BY <1>0, <3>1 DEF OperationsKnown
    <2>3. ASSUME NEW o \in inflight', NEW t \in truth PROVE o.id # t.id
      <3>1. PICK k \in DOMAIN batch, i \in {1, 2} : o = Operation(batch[k], i)
        BY <1>3
      <3>2. PICK j \in 1 .. taken, m \in {1, 2} : t.id = IdOf(j, m) /\ t.job = j
        BY <1>0 DEF OperationsKnown, Outcome
      <3>3. batch[k] \in Nat /\ batch[k] > taken - Len(batch)
        BY <1>0, IdsOfBatch
      <3>4. j <= taken - Len(batch)
        BY <1>4, <3>2
      <3>5. taken \in Nat /\ Len(batch) \in Nat /\ j \in Nat
        BY <1>0, LenProperties DEF RingTypes, BatchKnown
      <3>6. j # batch[k]
        BY <3>3, <3>4, <3>5
      <3>7. o.id = IdOf(batch[k], i)
        BY <3>1 DEF Operation
      <3>. QED BY <3>2, <3>3, <3>5, <3>6, <3>7, IdsDiffer
    <2>4. \A t, u \in truth : t.id = u.id => t = u
      BY <1>0 DEF OperationsKnown
    <2>5. at' \notin {"gathering", "submitting"}
      BY <1>1
    <2>. QED BY <1>2, <2>1, <2>2, <2>3, <2>4, <2>5 DEF OperationsKnown
  <1>9. CompletionsKnown'
    <2>1. DOMAIN cq' = {} /\ DOMAIN seen' = {} /\ at' # "succeeded"
      BY <1>1, <1>2, <1>4
    <2>. QED BY <2>1 DEF CompletionsKnown
  <1>10. AnsweredIsPerformed'
    BY <1>2 DEF KernelInv, AnsweredIsPerformed
  <1>. QED BY <1>5, <1>6, <1>7, <1>8, <1>9, <1>10 DEF KernelInv

LEMMA CompleteKernel ==
    ASSUME KernelInv, CompleteOperation
    PROVE  KernelInv'
  <1>0. RingTypes /\ BatchKnown /\ HelperKnown /\ TodoKnown /\ OperationsKnown
        /\ CompletionsKnown
    BY DEF KernelInv
  <1>a. PICK o \in inflight :
            /\ inflight' = inflight \ {o}
            /\ \E result \in {Expected(o.op), "error"} :
                  /\ IF result = Expected(o.op) THEN UNCHANGED faults ELSE Fault("operation")
                  /\ cq' = Append(cq, [id |-> o.id, op |-> o.op, result |-> result])
                  /\ truth' = truth \cup {[id |-> o.id, op |-> o.op, job |-> o.job,
                                           result |-> result, file |-> o.file]}
            /\ UNCHANGED <<started, input, taken, at, todo, batch, number, file, seen, output,
                           exit, answered>>
    BY DEF CompleteOperation
  <1>1. PICK result \in {Expected(o.op), "error"} :
            /\ cq' = Append(cq, [id |-> o.id, op |-> o.op, result |-> result])
            /\ truth' = truth \cup {[id |-> o.id, op |-> o.op, job |-> o.job,
                                     result |-> result, file |-> o.file]}
    BY <1>a
  <1>2. /\ mode' = mode /\ idle' = idle /\ replaces' = replaces /\ sent' = sent /\ ended' = ended
        /\ taken' = taken /\ at' = at /\ todo' = todo /\ batch' = batch /\ number' = number
        /\ file' = file /\ seen' = seen /\ trace' = trace /\ sidecar' = sidecar
        /\ native' = native /\ exit' = exit /\ answered' = answered
    BY <1>a DEF started, input, output
  <1>3. PICK k \in DOMAIN batch, i \in {1, 2} : o = Operation(batch[k], i)
    BY <1>0 DEF OperationsKnown
  <1>4. /\ batch[k] \in 1 .. taken /\ o.id \in BatchIds /\ o.id \in Nat
        /\ o.id = IdOf(batch[k], i) /\ o.op = JobOps[i] /\ o.op \in {"write", "read"}
    <2>1. JobOps[i] \in {"write", "read"}
      BY DEF JobOps
    <2>. QED BY <1>0, <1>3, <2>1, IdsOfBatch DEF Operation
  <1>. DEFINE t == Outcome(batch[k], i, result)
              c == [id |-> o.id, op |-> o.op, result |-> result]
  <1>5. truth' = truth \cup {t} /\ cq' = Append(cq, c)
        /\ t.id = o.id /\ t.op = o.op /\ t.result = result
    BY <1>1, <1>3 DEF Operation, Outcome
  <1>6. result \in {"whole", "EBADF", "error"} /\ result \in {Expected(JobOps[i]), "error"}
    BY <1>1, <1>4 DEF Expected
  <1>7. c \in CompletionRecord
    BY <1>4, <1>6 DEF CompletionRecord
  <1>8. \A u \in truth : u.id # o.id
    BY <1>0 DEF OperationsKnown
  <1>9. at \notin {"gathering", "submitting"}
    BY <1>0 DEF OperationsKnown
  <1>10. /\ cq \in Seq(CompletionRecord) /\ DOMAIN cq = 1 .. Len(cq) /\ Len(cq) \in Nat
         /\ DOMAIN cq' = 1 .. Len(cq) + 1 /\ cq'[Len(cq) + 1] = c
         /\ \A q \in 1 .. Len(cq) : cq'[q] = cq[q]
         /\ cq' \in Seq(CompletionRecord)
    <2>1. cq \in Seq(CompletionRecord)
      BY <1>0 DEF RingTypes
    <2>. HIDE DEF c
    <2>. QED BY <1>5, <1>7, <2>1, AppendProperties, LenProperties
  <1>11. RingTypes'
    BY <1>0, <1>2, <1>10 DEF RingTypes
  <1>12. BatchKnown' /\ HelperKnown'
    BY <1>0, <1>2 DEF BatchKnown, HelperKnown
  <1>13. TodoKnown'
    BY <1>0, <1>2, SameTodo
  <1>14. OperationsKnown'
    <2>1. ASSUME NEW p \in inflight' PROVE \E l \in DOMAIN batch', m \in {1, 2} :
                                              p = Operation(batch[l], m)'
      <3>1. \A j, m : Operation(j, m)' = Operation(j, m)
        BY <1>2 DEF Operation
      <3>. QED BY <1>0, <1>a, <1>2, <3>1 DEF OperationsKnown, Operation
    <2>2. ASSUME NEW u \in truth'
          PROVE  \E j \in 1 .. taken, m \in {1, 2} :
                    \E r \in {Expected(JobOps[m]), "error"} : u = Outcome(j, m, r)'
      <3>1. \A j, m, r : Outcome(j, m, r)' = Outcome(j, m, r)
        BY <1>2 DEF Outcome
      <3>2. CASE u \in truth
        BY <1>0, <3>1, <3>2 DEF OperationsKnown
      <3>3. CASE u = t
        BY <1>4, <1>6, <3>1, <3>3
      <3>. QED BY <1>5, <3>2, <3>3
    <2>3. ASSUME NEW p \in inflight', NEW u \in truth' PROVE p.id # u.id
      <3>1. p \in inflight /\ p # o
        BY <1>a
      <3>2. CASE u \in truth
        BY <1>0, <3>1, <3>2 DEF OperationsKnown
      <3>3. CASE u = t
        <4>1. PICK l \in DOMAIN batch, m \in {1, 2} : p = Operation(batch[l], m)
          BY <1>0, <3>1 DEF OperationsKnown
        <4>2. p.id = IdOf(batch[l], m) /\ batch[l] \in Nat /\ batch[k] \in Nat
          BY <1>0, <4>1, IdsOfBatch DEF Operation
        <4>3. ASSUME p.id = o.id PROVE batch[l] = batch[k] /\ m = i
          <5>1. IdOf(batch[l], m) = IdOf(batch[k], i)
            BY <1>4, <4>2, <4>3
          <5>. QED BY <4>2, <5>1, IdsDiffer
        <4>. QED BY <1>3, <1>5, <3>1, <3>3, <4>1, <4>3
      <3>. QED BY <1>5, <3>2, <3>3
    <2>4. ASSUME NEW u \in truth', NEW v \in truth', u.id = v.id PROVE u = v
      BY <1>0, <1>5, <1>8, <2>4 DEF OperationsKnown
    <2>5. at' \notin {"gathering", "submitting"}
      BY <1>2, <1>9
    <2>. QED BY <1>2, <2>1, <2>2, <2>3, <2>4, <2>5 DEF OperationsKnown
  <1>15. CompletionsKnown'
    <2>0. BatchIds' = BatchIds /\ (AllReaped' <=> AllReaped)
      BY <1>2 DEF BatchIds, AllReaped
    <2>1. ASSUME NEW q \in DOMAIN cq'
          PROVE  /\ cq'[q].id \in BatchIds
                 /\ \E u \in truth' : u.id = cq'[q].id /\ u.op = cq'[q].op /\ u.result = cq'[q].result
      <3>1. CASE q \in 1 .. Len(cq)
        <4>1. /\ cq[q].id \in BatchIds
              /\ \E u \in truth : u.id = cq[q].id /\ u.op = cq[q].op /\ u.result = cq[q].result
          BY <1>0, <1>10, <3>1 DEF CompletionsKnown
        <4>. QED BY <1>5, <1>10, <3>1, <4>1
      <3>2. CASE q = Len(cq) + 1
        <4>1. c.id = o.id /\ c.op = o.op /\ c.result = result
          OBVIOUS
        <4>. QED BY <1>4, <1>5, <1>10, <3>2, <4>1
      <3>. QED BY <1>10, <3>1, <3>2
    <2>2. \A p \in DOMAIN seen :
              /\ seen[p].kind = "cqe" /\ seen[p].id \in BatchIds /\ seen[p].batch = number
              /\ \E u \in truth' : /\ u.id = seen[p].id /\ u.result = seen[p].result
                                   /\ at # "failed" => u.result = Expected(u.op)
      BY <1>0, <1>5 DEF CompletionsKnown
    <2>3. \A q \in DOMAIN cq : cq[q].id # o.id
      BY <1>0, <1>8 DEF CompletionsKnown
    <2>4. \A p \in DOMAIN seen : seen[p].id # o.id
      BY <1>0, <1>8 DEF CompletionsKnown
    <2>5. ASSUME NEW p \in DOMAIN cq', NEW q \in DOMAIN cq', cq'[p].id = cq'[q].id
          PROVE  p = q
      <3>1. c.id = o.id
        OBVIOUS
      <3>2. \A l \in DOMAIN cq' : \/ l \in 1 .. Len(cq) /\ cq'[l] = cq[l] /\ cq'[l].id # o.id
                                  \/ l = Len(cq) + 1 /\ cq'[l].id = o.id
        BY <1>10, <2>3, <3>1
      <3>3. \A l, m \in 1 .. Len(cq) : cq[l].id = cq[m].id => l = m
        BY <1>0, <1>10 DEF CompletionsKnown
      <3>. QED BY <2>5, <3>2, <3>3
    <2>6. ASSUME NEW p \in DOMAIN seen, NEW q \in DOMAIN cq' PROVE seen[p].id # cq'[q].id
      <3>1. c.id = o.id
        OBVIOUS
      <3>2. CASE q \in 1 .. Len(cq)
        BY <1>0, <1>10, <3>2 DEF CompletionsKnown
      <3>3. CASE q = Len(cq) + 1
        BY <1>10, <2>4, <3>1, <3>3
      <3>. QED BY <1>10, <3>2, <3>3
    <2>7. \A p, q \in DOMAIN seen : seen[p].id = seen[q].id => p = q
      BY <1>0 DEF CompletionsKnown
    <2>8. at = "succeeded" => AllReaped
      BY <1>0 DEF CompletionsKnown
    <2>. QED BY <1>2, <2>0, <2>1, <2>2, <2>5, <2>6, <2>7, <2>8 DEF CompletionsKnown
  <1>16. AnsweredIsPerformed'
    BY <1>2, <1>5 DEF KernelInv, AnsweredIsPerformed
  <1>. QED BY <1>11, <1>12, <1>13, <1>14, <1>15, <1>16 DEF KernelInv

LEMMA ReturnKernel ==
    ASSUME KernelInv, Return
    PROVE  KernelInv'
  <1>0. RingTypes /\ BatchKnown /\ HelperKnown /\ TodoKnown /\ OperationsKnown
        /\ CompletionsKnown
    BY DEF KernelInv
  <1>. DEFINE short == [Enter EXCEPT !.result = "short"]
  <1>1. /\ at \in {"waiting", "short"} /\ at' = "draining" /\ exit' \in {exit, "1"}
        /\ trace' \in {trace, Append(trace, Enter), Append(trace, short)}
    BY DEF Return, Recorded, Missed
  <1>2. /\ mode' = mode /\ idle' = idle /\ replaces' = replaces /\ sent' = sent /\ ended' = ended
        /\ taken' = taken /\ todo' = todo /\ batch' = batch /\ number' = number
        /\ file' = file /\ inflight' = inflight /\ cq' = cq /\ truth' = truth /\ seen' = seen
        /\ sidecar' = sidecar /\ native' = native /\ answered' = answered
    BY DEF Return, started, input, kernel
  <1>3. todo = <<>>
    BY <1>0, <1>1 DEF TodoKnown
  <1>4. RingTypes'
    <2>1. trace \in Seq(CallRecord)
      BY <1>0 DEF RingTypes
    <2>2. Enter \in CallRecord /\ short \in CallRecord
      BY <1>0, EnterIs DEF CallRecord
    <2>3. trace' \in Seq(CallRecord)
      <3>. HIDE DEF short
      <3>. QED BY <1>1, <2>1, <2>2, AppendProperties
    <2>4. at' \in Stages
      BY <1>1 DEF Stages
    <2>5. exit' \in {"running", "0", "1", "killed"}
      BY <1>0, <1>1 DEF RingTypes
    <2>. QED BY <1>0, <1>2, <2>3, <2>4, <2>5 DEF RingTypes
  <1>5. BatchKnown' /\ HelperKnown'
    BY <1>0, <1>1, <1>2 DEF BatchKnown, HelperKnown
  <1>6. TodoKnown'
    BY <1>1, <1>2, <1>3 DEF TodoKnown
  <1>7. OperationsKnown'
    <2>1. \A j, m : Operation(j, m)' = Operation(j, m)
      BY <1>2 DEF Operation
    <2>2. \A j, m, r : Outcome(j, m, r)' = Outcome(j, m, r)
      BY <1>2 DEF Outcome
    <2>3. at' \notin {"gathering", "submitting"}
      BY <1>1
    <2>. QED BY <1>0, <1>2, <2>1, <2>2, <2>3 DEF OperationsKnown, Operation, Outcome
  <1>8. CompletionsKnown'
    <2>0. BatchIds' = BatchIds
      BY <1>2 DEF BatchIds
    <2>1. at # "failed" /\ at' \notin {"failed", "succeeded"}
      BY <1>1
    <2>. QED BY <1>0, <1>2, <2>0, <2>1 DEF CompletionsKnown
  <1>9. AnsweredIsPerformed'
    BY <1>2 DEF KernelInv, AnsweredIsPerformed
  <1>. QED BY <1>4, <1>5, <1>6, <1>7, <1>8, <1>9 DEF KernelInv

(* Every operation of a batch has been seen when as many were seen as it has. *)
LEMMA AllSeenAll ==
    ASSUME KernelInv, AllReaped
    PROVE  /\ \A id \in BatchIds : \E p \in DOMAIN seen : seen[p].id = id
           /\ at # "failed" => \A k \in DOMAIN batch, i \in {1, 2} :
                 \E t \in truth : /\ t.job = batch[k] /\ t.op = JobOps[i]
                                  /\ t.id = IdOf(batch[k], i) /\ t.result = Expected(t.op)
  <1>0. RingTypes /\ BatchKnown /\ OperationsKnown /\ CompletionsKnown
    BY DEF KernelInv
  <1>1. /\ Len(seen) = 2 * Len(batch) /\ Len(batch) \in Nat /\ DOMAIN seen = 1 .. Len(seen)
        /\ Len(seen) \in Nat
    BY <1>0, LenProperties DEF AllReaped, JobOps, BatchKnown, RingTypes
  <1>2. IsFiniteSet(BatchIds) /\ Cardinality(BatchIds) = Len(seen) /\ BatchIds \subseteq Nat
    BY <1>0, <1>1, BatchIdsAre
  <1>. DEFINE idAt == [p \in 1 .. Len(seen) |-> seen[p].id]
              ids == {idAt[p] : p \in 1 .. Len(seen)}
  <1>3. \A p, q \in 1 .. Len(seen) : seen[p].id = seen[q].id => p = q
    BY <1>0, <1>1 DEF CompletionsKnown
  <1>4. \A p \in 1 .. Len(seen) : seen[p].id \in BatchIds
    BY <1>0, <1>1 DEF CompletionsKnown
  <1>5. ids \subseteq BatchIds
    BY <1>4
  <1>6. IsFiniteSet(ids)
    BY <1>2, <1>5, FS_Subset
  <1>7. Cardinality(ids) = Len(seen)
    <2>1. idAt \in Bijection(1 .. Len(seen), ids)
      <3>1. idAt \in [1 .. Len(seen) -> ids]
        OBVIOUS
      <3>2. \A p, q \in 1 .. Len(seen) : idAt[p] = idAt[q] => p = q
        BY <1>3
      <3>3. \A x \in ids : \E p \in 1 .. Len(seen) : idAt[p] = x
        OBVIOUS
      <3>. HIDE DEF idAt, ids
      <3>. QED BY <3>1, <3>2, <3>3 DEF Bijection, Injection, Surjection, IsInjective
    <2>2. ExistsBijection(1 .. Len(seen), ids)
      BY <2>1 DEF ExistsBijection
    <2>. HIDE DEF ids, idAt
    <2>. QED BY <1>1, <1>6, <2>2, FS_NatBijection, FS_CountingElements
  <1>8. ids = BatchIds
    BY <1>2, <1>5, <1>7, FS_Subset
  <1>9. \A id \in BatchIds : \E p \in DOMAIN seen : seen[p].id = id
    BY <1>1, <1>8
  <1>10. ASSUME at # "failed", NEW k \in DOMAIN batch, NEW i \in {1, 2}
         PROVE  \E t \in truth : /\ t.job = batch[k] /\ t.op = JobOps[i]
                                 /\ t.id = IdOf(batch[k], i) /\ t.result = Expected(t.op)
    <2>1. IdOf(batch[k], i) \in BatchIds /\ batch[k] \in Nat
      BY <1>0, IdsOfBatch
    <2>2. PICK p \in DOMAIN seen : seen[p].id = IdOf(batch[k], i)
      BY <1>9, <2>1
    <2>3. PICK t \in truth : t.id = IdOf(batch[k], i) /\ t.result = Expected(t.op)
      BY <1>0, <1>10, <2>2 DEF CompletionsKnown
    <2>4. PICK j \in 1 .. taken, m \in {1, 2} : \E result : t = Outcome(j, m, result)
      BY <1>0 DEF OperationsKnown
    <2>5. t.id = IdOf(j, m) /\ t.job = j /\ t.op = JobOps[m] /\ j \in Nat
      BY <2>4 DEF Outcome
    <2>6. j = batch[k] /\ m = i
      <3>1. IdOf(j, m) = IdOf(batch[k], i)
        BY <2>3, <2>5
      <3>. QED BY <2>1, <2>5, <3>1, IdsDiffer
    <2>. QED BY <2>3, <2>5, <2>6
  <1>. QED BY <1>9, <1>10

LEMMA CompletionRow ==
    \A id \in Nat, result \in {"whole", "EBADF", "error"}, n \in Nat :
        Row("cqe", id, "none", 0, result, n) \in RowRecord
  <1>. SUFFICES ASSUME NEW id \in Nat, NEW result \in {"whole", "EBADF", "error"}, NEW n \in Nat
                PROVE  Row("cqe", id, "none", 0, result, n) \in RowRecord
    OBVIOUS
  <1>1. 0 \in Int
    OBVIOUS
  <1>2. \/ result = "whole" \/ result = "EBADF" \/ result = "error"
    OBVIOUS
  <1>3. result \in {"none", "whole", "EBADF", "error", ""}
    BY <1>2
  <1>. QED BY <1>1, <1>3 DEF Row, RowRecord

(* The completion at the head of the queue becomes the last row that was seen. *)
LEMMA RowSeen ==
    ASSUME KernelInv, cq # <<>>,
           cq' = Tail(cq), seen' = Append(seen, CqeRow(Head(cq))),
           UNCHANGED <<mode, taken, batch, number, truth>>,
           at # "failed", at' # "failed" => Good(Head(cq)), at' # "succeeded"
    PROVE  /\ CompletionsKnown' /\ seen' \in Seq(RowRecord) /\ cq' \in Seq(CompletionRecord)
           /\ seen' # <<>> /\ seen'[Len(seen')] = CqeRow(Head(cq))
           /\ CqeRow(Head(cq)) \in RowRecord
  <1>0. RingTypes /\ CompletionsKnown
    BY DEF KernelInv
  <1>. DEFINE c == cq[1]
              r == CqeRow(c)
              n == Len(cq)
              m == Len(seen)
  <1>1. /\ Head(cq) = c /\ c \in CompletionRecord /\ n \in Nat /\ n # 0 /\ DOMAIN cq = 1 .. n
        /\ DOMAIN cq' = 1 .. n - 1 /\ \A q \in 1 .. n - 1 : cq'[q] = cq[q + 1]
        /\ cq' \in Seq(CompletionRecord) /\ seen \in Seq(RowRecord) /\ m \in Nat
        /\ DOMAIN seen = 1 .. m /\ number \in Nat
    <2>1. cq \in Seq(CompletionRecord) /\ seen \in Seq(RowRecord) /\ number \in Nat
      BY <1>0 DEF RingTypes
    <2>. QED BY <2>1, HeadTailProperties, LenProperties, EmptySeq
  <1>2. /\ r.kind = "cqe" /\ r.id = c.id /\ r.result = c.result /\ r.batch = number
        /\ r \in RowRecord
    <2>. HIDE DEF c
    <2>1. r = Row("cqe", c.id, "none", 0, c.result, number)
      BY DEF CqeRow
    <2>2. c.id \in Nat /\ c.result \in {"whole", "EBADF", "error"}
      BY <1>1 DEF CompletionRecord
    <2>3. Row("cqe", c.id, "none", 0, c.result, number) \in RowRecord
      BY <1>1, <2>2, CompletionRow
    <2>. QED BY <2>1, <2>3 DEF Row
  <1>3. seen' = Append(seen, r)
    BY <1>1
  <1>4. /\ seen' \in Seq(RowRecord) /\ DOMAIN seen' = 1 .. m + 1 /\ Len(seen') = m + 1
        /\ seen'[m + 1] = r /\ \A p \in 1 .. m : seen'[p] = seen[p]
    <2>. HIDE DEF r
    <2>. QED BY <1>1, <1>2, <1>3, AppendProperties, LenProperties
  <1>5. 1 \in 1 .. n /\ \A q \in 1 .. n - 1 : q + 1 \in 1 .. n /\ q + 1 # 1
    BY <1>1
  <1>6. PICK t \in truth : t.id = c.id /\ t.op = c.op /\ t.result = c.result
    BY <1>0, <1>1, <1>5 DEF CompletionsKnown
  <1>7. c.id \in BatchIds
    BY <1>0, <1>1, <1>5 DEF CompletionsKnown
  <1>8. \A p, q \in 1 .. n : cq[p].id = cq[q].id => p = q
    BY <1>0, <1>1 DEF CompletionsKnown
  <1>9. \A p \in 1 .. m, q \in 1 .. n : seen[p].id # cq[q].id
    BY <1>0, <1>1 DEF CompletionsKnown
  <1>10. BatchIds' = BatchIds
    BY DEF BatchIds
  <1>11. at' # "failed" => t.result = Expected(t.op)
    BY <1>1, <1>6 DEF Good
  <1>. HIDE DEF c, r, n, m
  <1>12. ASSUME NEW q \in DOMAIN cq'
         PROVE  /\ cq'[q].id \in BatchIds
                /\ \E u \in truth : u.id = cq'[q].id /\ u.op = cq'[q].op /\ u.result = cq'[q].result
    BY <1>0, <1>1, <1>5, <1>12 DEF CompletionsKnown
  <1>13. ASSUME NEW p \in DOMAIN seen'
         PROVE  /\ seen'[p].kind = "cqe" /\ seen'[p].id \in BatchIds /\ seen'[p].batch = number
                /\ \E u \in truth : /\ u.id = seen'[p].id /\ u.result = seen'[p].result
                                    /\ at' # "failed" => u.result = Expected(u.op)
    <2>1. CASE p \in 1 .. m
      <3>1. /\ seen[p].kind = "cqe" /\ seen[p].id \in BatchIds /\ seen[p].batch = number
            /\ \E u \in truth : /\ u.id = seen[p].id /\ u.result = seen[p].result
                                /\ u.result = Expected(u.op)
        BY <1>0, <1>1, <2>1 DEF CompletionsKnown
      <3>. QED BY <1>4, <2>1, <3>1
    <2>2. CASE p = m + 1
      BY <1>2, <1>4, <1>6, <1>7, <1>11, <2>2
    <2>. QED BY <1>1, <1>4, <2>1, <2>2
  <1>14. ASSUME NEW p \in DOMAIN cq', NEW q \in DOMAIN cq', cq'[p].id = cq'[q].id
         PROVE  p = q
    <2>1. p \in 1 .. n - 1 /\ q \in 1 .. n - 1 /\ p + 1 \in 1 .. n /\ q + 1 \in 1 .. n
          /\ cq[p + 1].id = cq[q + 1].id
      BY <1>1, <1>5, <1>14
    <2>2. p + 1 = q + 1
      BY <1>8, <2>1
    <2>. QED BY <1>1, <2>1, <2>2
  <1>15. ASSUME NEW p \in DOMAIN seen', NEW q \in DOMAIN seen', seen'[p].id = seen'[q].id
         PROVE  p = q
    <2>1. \A l \in 1 .. m : seen[l].id # c.id
      BY <1>5, <1>9 DEF c
    <2>2. \A l \in 1 .. m + 1 : \/ l \in 1 .. m /\ seen'[l] = seen[l] /\ seen'[l].id # c.id
                                \/ l = m + 1 /\ seen'[l].id = c.id
      BY <1>1, <1>2, <1>4, <2>1
    <2>3. \A l, k \in 1 .. m : seen[l].id = seen[k].id => l = k
      BY <1>0, <1>1 DEF CompletionsKnown
    <2>. QED BY <1>4, <1>15, <2>2, <2>3
  <1>16. ASSUME NEW p \in DOMAIN seen', NEW q \in DOMAIN cq' PROVE seen'[p].id # cq'[q].id
    <2>1. q \in 1 .. n - 1 /\ q + 1 \in 1 .. n /\ cq'[q] = cq[q + 1] /\ q + 1 # 1
      BY <1>1, <1>5
    <2>2. CASE p \in 1 .. m
      BY <1>4, <1>9, <2>1, <2>2
    <2>3. CASE p = m + 1
      <3>1. cq[q + 1].id # cq[1].id
        BY <1>5, <1>8, <2>1
      <3>. QED BY <1>2, <1>4, <2>1, <2>3, <3>1 DEF c
    <2>. QED BY <1>1, <1>4, <2>2, <2>3
  <1>17. CompletionsKnown'
    BY <1>10, <1>12, <1>13, <1>14, <1>15, <1>16 DEF CompletionsKnown
  <1>18. seen' # <<>> /\ Len(seen') = m + 1
    BY <1>1, <1>4
  <1>. QED BY <1>1, <1>2, <1>4, <1>17, <1>18 DEF r, c

LEMMA DrainKernel ==
    ASSUME KernelInv, Drain
    PROVE  KernelInv'
  <1>0. RingTypes /\ BatchKnown /\ HelperKnown /\ TodoKnown /\ OperationsKnown
        /\ CompletionsKnown
    BY DEF KernelInv
  <1>1. /\ Running /\ at = "draining" /\ todo = <<>> /\ mode = "shared" /\ cq # <<>>
        /\ cq' = Tail(cq)
        /\ \/ /\ Good(Head(cq)) /\ todo' = <<WriteOf(<<CqeRow(Head(cq))>>)>>
              /\ seen' = Append(seen, CqeRow(Head(cq))) /\ exit' = exit
           \/ exit' = "1" /\ todo' = todo /\ seen' = seen
    BY DEF Drain, Draining
  <1>2. /\ mode' = mode /\ idle' = idle /\ replaces' = replaces /\ sent' = sent /\ ended' = ended
        /\ taken' = taken /\ at' = at /\ batch' = batch /\ number' = number
        /\ file' = file /\ inflight' = inflight /\ truth' = truth /\ trace' = trace
        /\ sidecar' = sidecar /\ native' = native /\ answered' = answered
    BY DEF Drain, started, input, output
  <1>3. BatchKnown' /\ HelperKnown'
    BY <1>0, <1>2 DEF BatchKnown, HelperKnown
  <1>4. OperationsKnown'
    <2>1. \A j, m : Operation(j, m)' = Operation(j, m)
      BY <1>2 DEF Operation
    <2>2. \A j, m, r : Outcome(j, m, r)' = Outcome(j, m, r)
      BY <1>2 DEF Outcome
    <2>3. at' \notin {"gathering", "submitting"}
      BY <1>1, <1>2
    <2>. QED BY <1>0, <1>2, <2>1, <2>2, <2>3 DEF OperationsKnown, Operation, Outcome
  <1>5. AnsweredIsPerformed'
    BY <1>2 DEF KernelInv, AnsweredIsPerformed
  <1>6. CASE /\ Good(Head(cq)) /\ todo' = <<WriteOf(<<CqeRow(Head(cq))>>)>>
             /\ seen' = Append(seen, CqeRow(Head(cq))) /\ exit' = exit
    <2>1. /\ CompletionsKnown' /\ seen' \in Seq(RowRecord) /\ cq' \in Seq(CompletionRecord)
          /\ seen' # <<>> /\ seen'[Len(seen')] = CqeRow(Head(cq))
          /\ CqeRow(Head(cq)) \in RowRecord
      BY <1>1, <1>2, <1>6, RowSeen
    <2>2. todo' \in Seq(CallRecord)
      <3>1. <<CqeRow(Head(cq))>> \in Seq(RowRecord)
        BY <2>1
      <3>2. WriteOf(<<CqeRow(Head(cq))>>) \in CallRecord
        BY <3>1, CallKinds
      <3>. QED BY <1>6, <3>2
    <2>3. RingTypes'
      BY <1>0, <1>2, <1>6, <2>1, <2>2 DEF RingTypes
    <2>4. TodoKnown'
      <3>1. WriteOf(<<seen[Len(seen)]>>)' = WriteOf(<<CqeRow(Head(cq))>>)
        BY <2>1 DEF WriteOf
      <3>. QED BY <1>1, <1>2, <1>6, <2>1, <3>1 DEF TodoKnown, Running
    <2>. QED BY <1>3, <1>4, <1>5, <2>1, <2>3, <2>4 DEF KernelInv
  <1>7. CASE exit' = "1" /\ todo' = todo /\ seen' = seen
    <2>1. /\ cq \in Seq(CompletionRecord) /\ cq' \in Seq(CompletionRecord)
          /\ DOMAIN cq = 1 .. Len(cq) /\ Len(cq) \in Nat
          /\ DOMAIN cq' = 1 .. Len(cq) - 1 /\ \A q \in 1 .. Len(cq) - 1 : cq'[q] = cq[q + 1]
      <3>1. cq \in Seq(CompletionRecord)
        BY <1>0 DEF RingTypes
      <3>. QED BY <1>1, <3>1, HeadTailProperties, LenProperties, EmptySeq
    <2>2. \A q \in DOMAIN cq' : q + 1 \in DOMAIN cq /\ cq'[q] = cq[q + 1]
      BY <2>1
    <2>3. CompletionsKnown'
      <3>1. BatchIds' = BatchIds
        BY <1>2 DEF BatchIds
      <3>2. \A p, q \in DOMAIN cq' : cq'[p].id = cq'[q].id => p + 1 = q + 1
        BY <1>0, <2>2 DEF CompletionsKnown
      <3>3. \A p, q \in DOMAIN cq' : p + 1 = q + 1 => p = q
        BY <2>1
      <3>4. \A p \in DOMAIN seen, q \in DOMAIN cq' : seen[p].id # cq'[q].id
        BY <1>0, <2>2 DEF CompletionsKnown
      <3>5. \A q \in DOMAIN cq' :
              /\ cq'[q].id \in BatchIds
              /\ \E t \in truth : t.id = cq'[q].id /\ t.op = cq'[q].op /\ t.result = cq'[q].result
        BY <1>0, <2>2 DEF CompletionsKnown
      <3>6. at' = at /\ at # "succeeded"
        BY <1>1, <1>2
      <3>. QED BY <1>0, <1>2, <1>7, <3>1, <3>2, <3>3, <3>4, <3>5, <3>6 DEF CompletionsKnown
    <2>4. RingTypes'
      BY <1>0, <1>2, <1>7, <2>1 DEF RingTypes
    <2>5. TodoKnown'
      BY <1>1, <1>2, <1>7 DEF TodoKnown, Running
    <2>. QED BY <1>3, <1>4, <1>5, <2>3, <2>4, <2>5 DEF KernelInv
  <1>. QED BY <1>1, <1>6, <1>7

LEMMA FinishKernel ==
    ASSUME KernelInv, Finish
    PROVE  KernelInv'
  <1>0. RingTypes /\ BatchKnown /\ HelperKnown /\ TodoKnown /\ OperationsKnown
        /\ CompletionsKnown
    BY DEF KernelInv
  <1>1. /\ Running /\ at = "draining" /\ todo = <<>> /\ mode = "shared" /\ cq = <<>>
        /\ \/ /\ AllReaped /\ answered' = answered \cup ToSet(batch)
              /\ at' = "gathering" /\ batch' = <<>> /\ seen' = <<>> /\ exit' = exit
           \/ exit' = "1" /\ answered' = answered /\ at' = at /\ batch' = batch /\ seen' = seen
    BY DEF Finish, Draining
  <1>2. /\ mode' = mode /\ idle' = idle /\ replaces' = replaces /\ sent' = sent /\ ended' = ended
        /\ taken' = taken /\ todo' = todo /\ number' = number /\ cq' = cq
        /\ file' = file /\ inflight' = inflight /\ truth' = truth /\ trace' = trace
        /\ sidecar' = sidecar /\ native' = native
    BY DEF Finish, started, input, kernel, output
  <1>3. \A j, m : Operation(j, m)' = Operation(j, m)
    BY <1>2 DEF Operation
  <1>4. \A j, m, r : Outcome(j, m, r)' = Outcome(j, m, r)
    BY <1>2 DEF Outcome
  <1>5. CASE /\ AllReaped /\ answered' = answered \cup ToSet(batch)
             /\ at' = "gathering" /\ batch' = <<>> /\ seen' = <<>> /\ exit' = exit
    <2>1. RingTypes'
      <3>1. at' \in Stages /\ seen' \in Seq(RowRecord)
        BY <1>5 DEF Stages
      <3>. QED BY <1>0, <1>2, <1>5, <3>1 DEF RingTypes
    <2>2. BatchKnown'
      <3>1. batch' \in Seq(Nat) /\ Len(batch') = 0 /\ DOMAIN batch' = {} /\ taken' \in Nat
        BY <1>0, <1>2, <1>5 DEF RingTypes
      <3>. QED BY <1>5, <3>1 DEF BatchKnown
    <2>3. HelperKnown'
      BY <1>0, <1>1, <1>2, <1>5 DEF HelperKnown
    <2>4. TodoKnown'
      BY <1>1, <1>2, <1>5 DEF TodoKnown
    <2>5. inflight = {}
      <3>. SUFFICES ASSUME NEW o \in inflight PROVE FALSE
        OBVIOUS
      <3>1. PICK k \in DOMAIN batch, i \in {1, 2} : o = Operation(batch[k], i)
        BY <1>0 DEF OperationsKnown
      <3>2. o.id \in BatchIds
        BY <1>0, <3>1, IdsOfBatch DEF Operation
      <3>3. PICK p \in DOMAIN seen : seen[p].id = o.id
        BY <1>5, <3>2, AllSeenAll
      <3>4. \E t \in truth : t.id = o.id
        BY <1>0, <3>3 DEF CompletionsKnown
      <3>. QED BY <1>0, <3>4 DEF OperationsKnown
    <2>6. OperationsKnown'
      <3>1. ASSUME NEW t \in truth PROVE t.job <= taken' - Len(batch')
        <4>1. PICK j \in 1 .. taken : t.job = j
          BY <1>0 DEF OperationsKnown, Outcome
        <4>2. Len(batch') = 0 /\ taken' = taken /\ taken \in Nat
          BY <1>0, <1>2, <1>5 DEF RingTypes
        <4>. QED BY <4>1, <4>2
      <3>2. ASSUME NEW t \in truth
            PROVE  \E j \in 1 .. taken', i \in {1, 2} :
                      \E result \in {Expected(JobOps[i]), "error"} : t = Outcome(j, i, result)'
        BY <1>0, <1>2, <1>4 DEF OperationsKnown
      <3>3. \A t, u \in truth : t.id = u.id => t = u
        BY <1>0 DEF OperationsKnown
      <3>. QED BY <1>1, <1>2, <1>5, <2>5, <3>1, <3>2, <3>3 DEF OperationsKnown
    <2>7. CompletionsKnown'
      <3>1. DOMAIN cq' = {} /\ DOMAIN seen' = {} /\ at' # "succeeded"
        BY <1>1, <1>2, <1>5
      <3>. QED BY <3>1 DEF CompletionsKnown
    <2>8. AnsweredIsPerformed'
      <3>. SUFFICES ASSUME NEW j \in answered', NEW i \in DOMAIN JobOps
                    PROVE  \E t \in truth : /\ t.job = j /\ t.op = JobOps[i]
                                            /\ t.result = Expected(t.op)
        BY <1>2 DEF AnsweredIsPerformed
      <3>1. CASE j \in answered
        BY <3>1 DEF KernelInv, AnsweredIsPerformed
      <3>2. CASE j \in ToSet(batch)
        <4>1. PICK k \in DOMAIN batch : j = batch[k]
          BY <3>2 DEF ToSet
        <4>2. i \in {1, 2}
          BY DEF JobOps
        <4>3. at # "failed"
          BY <1>1
        <4>. QED BY <1>5, <4>1, <4>2, <4>3, AllSeenAll
      <3>. QED BY <1>5, <3>1, <3>2
    <2>. QED BY <2>1, <2>2, <2>3, <2>4, <2>6, <2>7, <2>8 DEF KernelInv
  <1>6. CASE exit' = "1" /\ answered' = answered /\ at' = at /\ batch' = batch /\ seen' = seen
    <2>1. RingTypes' /\ TodoKnown'
      BY <1>0, <1>1, <1>2, <1>6 DEF RingTypes, TodoKnown, Running
    <2>2. file' = file \/ (truth = {} /\ inflight = {})
      BY <1>2
    <2>. QED BY <1>2, <1>6, <2>1, <2>2, KernelFrame DEF kernel
  <1>. QED BY <1>1, <1>5, <1>6

LEMMA DrainHelperKernel ==
    ASSUME KernelInv, DrainHelper
    PROVE  KernelInv'
  <1>0. RingTypes /\ BatchKnown /\ HelperKnown /\ TodoKnown /\ OperationsKnown
        /\ CompletionsKnown
    BY DEF KernelInv
  <1>1. /\ Running /\ at = "draining" /\ todo = <<>> /\ mode = "helper"
        /\ \/ /\ cq # <<>> /\ cq' = Tail(cq) /\ seen' = Append(seen, CqeRow(Head(cq)))
              /\ \/ Good(Head(cq)) /\ todo' = todo /\ at' = at
                 \/ todo' = <<WriteOf(seen')>> /\ at' = "failed"
           \/ /\ cq = <<>> /\ cq' = cq /\ seen' = seen /\ todo' = <<WriteOf(seen')>>
              /\ at' = IF AllReaped THEN "succeeded" ELSE "failed"
    BY DEF DrainHelper, Draining, Flush
  <1>2. /\ mode' = mode /\ idle' = idle /\ replaces' = replaces /\ sent' = sent /\ ended' = ended
        /\ taken' = taken /\ batch' = batch /\ number' = number /\ exit' = exit
        /\ file' = file /\ inflight' = inflight /\ truth' = truth /\ trace' = trace
        /\ sidecar' = sidecar /\ native' = native /\ answered' = answered
    BY DEF DrainHelper, started, input, output
  <1>3. at' \in {"draining", "failed", "succeeded"}
    BY <1>1
  <1>4. BatchKnown' /\ HelperKnown'
    BY <1>0, <1>1, <1>2, <1>3 DEF BatchKnown, HelperKnown
  <1>5. OperationsKnown'
    <2>1. \A j, m : Operation(j, m)' = Operation(j, m)
      BY <1>2 DEF Operation
    <2>2. \A j, m, r : Outcome(j, m, r)' = Outcome(j, m, r)
      BY <1>2 DEF Outcome
    <2>3. at' \notin {"gathering", "submitting"}
      BY <1>3
    <2>. QED BY <1>0, <1>2, <2>1, <2>2, <2>3 DEF OperationsKnown, Operation, Outcome
  <1>6. AnsweredIsPerformed'
    BY <1>2 DEF KernelInv, AnsweredIsPerformed
  <1>7. CompletionsKnown' /\ seen' \in Seq(RowRecord) /\ cq' \in Seq(CompletionRecord)
    <2>1. CASE /\ cq # <<>> /\ cq' = Tail(cq) /\ seen' = Append(seen, CqeRow(Head(cq)))
               /\ (Good(Head(cq)) /\ at' = at) \/ at' = "failed"
      <3>1. at # "failed" /\ at' # "succeeded" /\ (at' # "failed" => Good(Head(cq)))
        BY <1>1, <2>1
      <3>. QED BY <1>2, <2>1, <3>1, RowSeen
    <2>2. CASE /\ cq = <<>> /\ cq' = cq /\ seen' = seen
               /\ at' = IF AllReaped THEN "succeeded" ELSE "failed"
      <3>1. BatchIds' = BatchIds /\ (AllReaped' <=> AllReaped)
        BY <1>2, <2>2 DEF BatchIds, AllReaped
      <3>2. at # "failed" /\ (at' = "succeeded" => AllReaped)
        BY <1>1, <2>2
      <3>3. cq \in Seq(CompletionRecord) /\ seen \in Seq(RowRecord)
        BY <1>0 DEF RingTypes
      <3>. QED BY <1>0, <1>2, <2>2, <3>1, <3>2, <3>3 DEF CompletionsKnown
    <2>. QED BY <1>1, <2>1, <2>2
  <1>8. WriteOf(seen') \in CallRecord
    BY <1>7, CallKinds
  <1>9. RingTypes'
    <2>1. at' \in Stages
      BY <1>3 DEF Stages
    <2>2. todo' \in Seq(CallRecord)
      <3>1. todo' = todo \/ todo' = <<WriteOf(seen')>>
        BY <1>1
      <3>2. <<WriteOf(seen')>> \in Seq(CallRecord)
        BY <1>8
      <3>3. todo \in Seq(CallRecord)
        BY <1>0 DEF RingTypes
      <3>. QED BY <3>1, <3>2, <3>3
    <2>. QED BY <1>0, <1>2, <1>7, <2>1, <2>2 DEF RingTypes
  <1>10. TodoKnown'
    <2>1. Running' /\ WriteOf(seen)' = WriteOf(seen')
      BY <1>1, <1>2 DEF Running, WriteOf
    <2>2. \/ todo' = <<>> /\ at' = "draining"
          \/ todo' = <<WriteOf(seen')>> /\ at' \in {"failed", "succeeded"}
      BY <1>1
    <2>. QED BY <2>1, <2>2 DEF TodoKnown
  <1>. QED BY <1>4, <1>5, <1>6, <1>7, <1>9, <1>10 DEF KernelInv

LEMMA ExitHelperKernel ==
    ASSUME KernelInv, ExitHelper
    PROVE  KernelInv'
  <1>0. RingTypes /\ BatchKnown /\ HelperKnown /\ TodoKnown /\ OperationsKnown
        /\ CompletionsKnown
    BY DEF KernelInv
  <1>1. /\ Running /\ todo = <<>> /\ at \in {"failed", "succeeded"}
        /\ \/ exit' = "1" /\ answered' = answered
           \/ at = "succeeded" /\ exit' = "0" /\ answered' = answered \cup ToSet(batch)
    BY DEF ExitHelper
  <1>2. /\ mode' = mode /\ idle' = idle /\ replaces' = replaces /\ sent' = sent /\ ended' = ended
        /\ taken' = taken /\ at' = at /\ todo' = todo /\ batch' = batch /\ number' = number
        /\ file' = file /\ inflight' = inflight /\ cq' = cq /\ truth' = truth /\ seen' = seen
        /\ trace' = trace /\ sidecar' = sidecar /\ native' = native
    BY DEF ExitHelper, started, input, kernel, output
  <1>3. RingTypes'
    <2>1. exit' \in {"0", "1"}
      BY <1>1
    <2>. QED BY <1>0, <1>2, <2>1 DEF RingTypes
  <1>4. TodoKnown'
    BY <1>1, <1>2 DEF TodoKnown
  <1>5. BatchKnown' /\ HelperKnown'
    BY <1>0, <1>2 DEF BatchKnown, HelperKnown
  <1>6. OperationsKnown'
    <2>1. \A j, m : Operation(j, m)' = Operation(j, m)
      BY <1>2 DEF Operation
    <2>2. \A j, m, r : Outcome(j, m, r)' = Outcome(j, m, r)
      BY <1>2 DEF Outcome
    <2>. QED BY <1>0, <1>2, <2>1, <2>2 DEF OperationsKnown, Operation, Outcome
  <1>7. CompletionsKnown'
    <2>1. BatchIds' = BatchIds /\ (AllReaped' <=> AllReaped)
      BY <1>2 DEF BatchIds, AllReaped
    <2>. QED BY <1>0, <1>2, <2>1 DEF CompletionsKnown
  <1>8. AnsweredIsPerformed'
    <2>. SUFFICES ASSUME NEW j \in answered', NEW i \in DOMAIN JobOps
                  PROVE  \E t \in truth : /\ t.job = j /\ t.op = JobOps[i]
                                          /\ t.result = Expected(t.op)
      BY <1>2 DEF AnsweredIsPerformed
    <2>1. CASE j \in answered
      BY <2>1 DEF KernelInv, AnsweredIsPerformed
    <2>2. CASE at = "succeeded" /\ j \in ToSet(batch)
      <3>1. PICK k \in DOMAIN batch : j = batch[k]
        BY <2>2 DEF ToSet
      <3>2. i \in {1, 2}
        BY DEF JobOps
      <3>3. AllReaped /\ at # "failed"
        BY <1>0, <2>2 DEF CompletionsKnown
      <3>. QED BY <3>1, <3>2, <3>3, AllSeenAll
    <2>. QED BY <1>1, <2>1, <2>2
  <1>. QED BY <1>3, <1>4, <1>5, <1>6, <1>7, <1>8 DEF KernelInv

LEMMA KernelStart ==
    ASSUME RingInit
    PROVE  KernelInv
  <1>1. RingTypes
    <2>1. /\ at \in Stages /\ file \in Files
      BY DEF RingInit, Stages, Files
    <2>2. Opens \in Seq(CallRecord)
      <3>1. /\ [Call("open") EXCEPT !.fd = FileFd, !.file = "slots"] \in CallRecord
            /\ [Call("setup") EXCEPT !.fd = RingFd] \in CallRecord
        <4>1. Call("open") \in CallRecord /\ Call("setup") \in CallRecord
          BY CallKinds DEF CallNames
        <4>2. FileFd \in Int /\ RingFd \in Int /\ "slots" \in Files
          BY DEF FileFd, RingFd, Files
        <4>. QED BY <4>1, <4>2 DEF CallRecord
      <3>. QED BY <3>1 DEF Opens
    <2>3. todo \in Seq(CallRecord) /\ trace \in Seq(CallRecord) /\ native \in Seq(CallRecord)
          /\ sidecar \in Seq(RowRecord) /\ seen \in Seq(RowRecord) /\ cq \in Seq(CompletionRecord)
      BY <2>2 DEF RingInit
    <2>. QED BY <2>1, <2>3 DEF RingInit, RingTypes
  <1>2. BatchKnown
    <2>1. batch \in Seq(Nat) /\ Len(batch) = 0 /\ DOMAIN batch = {} /\ taken = 0
          /\ at = "gathering"
      BY DEF RingInit
    <2>. QED BY <2>1 DEF BatchKnown
  <1>3. HelperKnown
    <2>1. Len(batch) = 0 /\ taken = 0 /\ number = 0 /\ at = "gathering"
          /\ (mode = "shared" => ~replaces)
      BY DEF RingInit
    <2>2. mode = "helper" => sent = 1
      BY DEF RingInit
    <2>3. mode = "helper" => ended
      BY DEF RingInit
    <2>. QED BY <2>1, <2>2, <2>3 DEF HelperKnown
  <1>4. TodoKnown
    BY DEF RingInit, TodoKnown, Running
  <1>5. OperationsKnown /\ AnsweredIsPerformed
    BY DEF RingInit, OperationsKnown, AnsweredIsPerformed
  <1>6. CompletionsKnown
    <2>1. DOMAIN cq = {} /\ DOMAIN seen = {} /\ at = "gathering"
      BY DEF RingInit
    <2>. QED BY <2>1 DEF CompletionsKnown
  <1>. QED BY <1>1, <1>2, <1>3, <1>4, <1>5, <1>6 DEF KernelInv

LEMMA KernelStep ==
    ASSUME KernelInv, [RingNext]_ringVars
    PROVE  KernelInv'
  <1>1. CASE UNCHANGED ringVars
    <2>1. RingTypes' /\ TodoKnown'
      <3>1. RingTypes'
        BY <1>1 DEF KernelInv, ringVars, RingTypes
      <3>2. TodoKnown'
        BY <1>1, SameTodo DEF KernelInv, ringVars
      <3>. QED BY <3>1, <3>2
    <2>. QED BY <1>1, <2>1, KernelFrame DEF ringVars, kernel
  <1>. QED BY <1>1, DispatcherKernel, PerformKernel, TakeKernel, SubmitKernel, EnterKernel,
               ReturnKernel, DrainKernel, FinishKernel, DrainHelperKernel, ExitHelperKernel,
               CompleteKernel, TornKernel, KilledKernel DEF RingNext, Program

LEMMA KernelAlways == RingSpec => []KernelInv
  <1>1. RingInit => KernelInv
    BY KernelStart
  <1>2. KernelInv /\ [RingNext]_ringVars => KernelInv'
    BY KernelStep
  <1>. QED BY <1>1, <1>2, PTL DEF RingSpec

(* A job is answered only when the kernel performed both its operations as    *)
(* expected, however many jobs, batches and faults there were.                *)
THEOREM AnsweredJobsPerformed == RingSpec => []AnsweredIsPerformed
  <1>1. KernelInv => AnsweredIsPerformed
    BY DEF KernelInv
  <1>. QED BY <1>1, KernelAlways, PTL

-----------------------------------------------------------------------------
(* A trace and one call more. *)
LEMMA TraceLonger ==
    ASSUME NEW tr \in Seq(CallRecord), NEW e \in CallRecord
    PROVE  LET n == Len(tr)
               new == Append(tr, e)
           IN  /\ n \in Nat /\ DOMAIN tr = 1 .. n /\ DOMAIN new = 1 .. n + 1 /\ Len(new) = n + 1
               /\ new[n + 1] = e /\ \A i \in 1 .. n : new[i] = tr[i]
               /\ ToSet(new) = ToSet(tr) \cup {e}
               /\ new \in Seq(CallRecord)
  BY AppendSet, AppendProperties, LenProperties

LEMMA PlacesLonger ==
    ASSUME NEW tr \in Seq(CallRecord), NEW e \in CallRecord, NEW names
    PROVE  Places(Append(tr, e), names)
             = Places(tr, names) \cup (IF e.call \in names THEN {Len(tr) + 1} ELSE {})
  <1>. DEFINE n == Len(tr)
              new == Append(tr, e)
  <1>1. /\ n \in Nat /\ DOMAIN tr = 1 .. n /\ DOMAIN new = 1 .. n + 1
        /\ new[n + 1] = e /\ \A i \in 1 .. n : new[i] = tr[i]
    BY TraceLonger
  <1>. HIDE DEF n, new
  <1>2. \A i \in 1 .. n + 1 : i \in 1 .. n \/ i = n + 1
    BY <1>1
  <1>3. \A i \in 1 .. n : i \in 1 .. n + 1 /\ i # n + 1
    BY <1>1
  <1>4. n + 1 \in 1 .. n + 1
    BY <1>1
  <1>5. Places(new, names) = {i \in 1 .. n + 1 : new[i].call \in names}
        /\ Places(tr, names) = {i \in 1 .. n : tr[i].call \in names}
    BY <1>1 DEF Places
  <1>. QED BY <1>1, <1>2, <1>3, <1>4, <1>5 DEF n, new

LEMMA LatestIs ==
    ASSUME NEW S \in SUBSET Nat, NEW i \in S, \A k \in S : k <= i
    PROVE  Latest(S) = i
  <1>1. Latest(S) \in S /\ \A k \in S : k <= Latest(S)
    BY DEF Latest
  <1>2. i <= Latest(S) /\ Latest(S) <= i /\ i \in Nat /\ Latest(S) \in Nat
    BY <1>1
  <1>. QED BY <1>2

(* A job of a place, or of the place after the end. *)
LEMMA JobLonger ==
    ASSUME NEW tr \in Seq(CallRecord), NEW e \in CallRecord
    PROVE  LET n == Len(tr)
               new == Append(tr, e)
           IN  /\ \A i \in 1 .. n + 1 : JobAt(new, i) = JobAt(tr, i)
               /\ JobAt(new, n + 2) = IF e.call \notin Markers THEN JobAt(tr, n + 1)
                                      ELSE IF e.call = "IPC_LEAVE" THEN NoJob ELSE e.job
  <1>. DEFINE n == Len(tr)
              new == Append(tr, e)
              marks(t, i) == {k \in Places(t, Markers) : k < i}
  <1>1. /\ n \in Nat /\ DOMAIN tr = 1 .. n /\ DOMAIN new = 1 .. n + 1
        /\ new[n + 1] = e /\ \A i \in 1 .. n : new[i] = tr[i]
    BY TraceLonger
  <1>2. Places(new, Markers)
          = Places(tr, Markers) \cup (IF e.call \in Markers THEN {n + 1} ELSE {})
    BY PlacesLonger
  <1>3. Places(tr, Markers) \subseteq 1 .. n /\ Places(new, Markers) \subseteq 1 .. n + 1
    BY <1>1 DEF Places
  <1>. HIDE DEF n, new
  <1>4. \A t, i : JobAt(t, i) = IF marks(t, i) = {} \/ t[Latest(marks(t, i))].call = "IPC_LEAVE"
                                THEN NoJob ELSE t[Latest(marks(t, i))].job
    BY DEF JobAt
  <1>5. \A i \in 1 .. n + 1 : marks(new, i) = marks(tr, i)
    <2>. SUFFICES ASSUME NEW i \in 1 .. n + 1 PROVE marks(new, i) = marks(tr, i)
      OBVIOUS
    <2>1. ~(n + 1 < i)
      BY <1>1
    <2>. QED BY <1>2, <2>1
  <1>6. e.call \notin Markers => marks(new, n + 2) = marks(tr, n + 1)
    <2>1. \A k \in 1 .. n : k < n + 1 /\ k < n + 2
      BY <1>1
    <2>. QED BY <1>2, <1>3, <2>1
  <1>7. \A i \in 1 .. n + 1 : marks(tr, i) # {} =>
            Latest(marks(tr, i)) \in 1 .. n
    <2>. SUFFICES ASSUME NEW i \in 1 .. n + 1, marks(tr, i) # {}
                  PROVE  Latest(marks(tr, i)) \in 1 .. n
      OBVIOUS
    <2>. DEFINE S == marks(tr, i)
    <2>1. S \subseteq 1 .. n
      BY <1>3
    <2>. HIDE DEF S
    <2>2. S \in SUBSET Nat /\ \A k \in S : k <= n
      BY <1>1, <2>1
    <2>3. S # {}
      BY DEF S
    <2>4. PICK k \in S : \A m \in S : m <= k
      BY <1>1, <2>2, <2>3, GreatestNumber
    <2>5. Latest(S) = k
      BY <2>2, <2>4, LatestIs
    <2>. QED BY <2>1, <2>4, <2>5 DEF S
  <1>8. e.call \in Markers => Latest(marks(new, n + 2)) = n + 1 /\ marks(new, n + 2) # {}
    <2>. SUFFICES ASSUME e.call \in Markers
                  PROVE  Latest(marks(new, n + 2)) = n + 1 /\ marks(new, n + 2) # {}
      OBVIOUS
    <2>. DEFINE S == marks(new, n + 2)
    <2>1. n + 1 \in S /\ S \subseteq 1 .. n + 1
      BY <1>1, <1>2, <1>3
    <2>. HIDE DEF S
    <2>2. S \in SUBSET Nat /\ \A k \in S : k <= n + 1
      BY <1>1, <2>1
    <2>3. Latest(S) = n + 1
      BY <2>1, <2>2, LatestIs
    <2>. QED BY <2>1, <2>3 DEF S
  <1>. HIDE DEF marks
  <1>9. ASSUME NEW i \in 1 .. n + 1 PROVE JobAt(new, i) = JobAt(tr, i)
    <2>1. marks(tr, i) # {} => new[Latest(marks(tr, i))] = tr[Latest(marks(tr, i))]
      BY <1>1, <1>7
    <2>. QED BY <1>4, <1>5, <2>1
  <1>10. e.call \notin Markers => JobAt(new, n + 2) = JobAt(tr, n + 1)
    <2>1. n + 1 \in 1 .. n + 1
      BY <1>1
    <2>2. marks(tr, n + 1) # {} => new[Latest(marks(tr, n + 1))] = tr[Latest(marks(tr, n + 1))]
      BY <1>1, <1>7, <2>1
    <2>. QED BY <1>4, <1>6, <2>2
  <1>11. e.call \in Markers =>
            JobAt(new, n + 2) = IF e.call = "IPC_LEAVE" THEN NoJob ELSE e.job
    BY <1>1, <1>4, <1>8
  <1>. QED BY <1>9, <1>10, <1>11 DEF n, new

(* What decides the file of a number. *)
Changes(e, fd) == \/ e.call \in {"open", "setup", "close"} /\ e.fd = fd
                  \/ e.call \in {"open", "setup"} /\ e.result = "unknown"

LEMMA ResourceLonger ==
    ASSUME NEW tr \in Seq(CallRecord), NEW e \in CallRecord
    PROVE  LET n == Len(tr)
               new == Append(tr, e)
           IN  /\ \A i \in 1 .. n + 1 : Resource(new, FileFd, i) = Resource(tr, FileFd, i)
               /\ Resource(new, FileFd, n + 2)
                    = IF ~Changes(e, FileFd) THEN Resource(tr, FileFd, n + 1)
                      ELSE IF e.call = "open" /\ e.result = "ok" THEN e.file ELSE Unresolved
  <1>. DEFINE n == Len(tr)
              new == Append(tr, e)
              changes(t, i) == {k \in 1 .. i - 1 : Changes(t[k], FileFd)}
              last(t, i) == t[Latest(changes(t, i))]
  <1>1. /\ n \in Nat /\ DOMAIN tr = 1 .. n /\ DOMAIN new = 1 .. n + 1
        /\ new[n + 1] = e /\ \A i \in 1 .. n : new[i] = tr[i]
    BY TraceLonger
  <1>. HIDE DEF n, new
  <1>2. FileFd # BadFd
    BY DEF FileFd, BadFd
  <1>3. ASSUME NEW t, NEW i
        PROVE  Resource(t, FileFd, i)
                 = IF changes(t, i) = {} THEN Unresolved
                   ELSE IF last(t, i).call = "open" /\ last(t, i).result = "ok"
                        THEN last(t, i).file ELSE Unresolved
    BY <1>2 DEF Resource, Changes
  <1>4. ASSUME NEW i \in 1 .. n + 1
        PROVE  changes(new, i) = changes(tr, i)
    <2>1. \A k \in 1 .. i - 1 : k \in 1 .. n
      BY <1>1
    <2>2. \A k \in 1 .. i - 1 : new[k] = tr[k]
      BY <1>1, <2>1
    <2>. QED BY <2>2
  <1>5. ASSUME NEW i \in 1 .. n + 1, changes(tr, i) # {}
        PROVE  Latest(changes(tr, i)) \in 1 .. n
    <2>. DEFINE S == changes(tr, i)
    <2>1. S \subseteq 1 .. n
      BY <1>1
    <2>2. S # {}
      BY <1>5
    <2>. HIDE DEF S
    <2>3. S \in SUBSET Nat /\ \A k \in S : k <= n
      BY <1>1, <2>1
    <2>4. PICK k \in S : \A m \in S : m <= k
      BY <1>1, <2>2, <2>3, GreatestNumber
    <2>5. Latest(S) = k
      BY <2>3, <2>4, LatestIs
    <2>. QED BY <2>1, <2>4, <2>5 DEF S
  <1>6. /\ (n + 2) - 1 = n + 1 /\ (n + 1) - 1 = n /\ n + 1 \in 1 .. n + 1
        /\ \A k \in 1 .. n + 1 : (k \in 1 .. n \/ k = n + 1)
        /\ \A k \in 1 .. n : k \in 1 .. n + 1
    BY <1>1
  <1>7. ~Changes(e, FileFd) => changes(new, n + 2) = changes(tr, n + 1)
    <2>. SUFFICES ASSUME ~Changes(e, FileFd) PROVE changes(new, n + 2) = changes(tr, n + 1)
      OBVIOUS
    <2>1. ASSUME NEW k \in changes(new, n + 2) PROVE k \in changes(tr, n + 1)
      <3>1. k \in 1 .. n + 1 /\ Changes(new[k], FileFd)
        BY <1>6
      <3>2. k # n + 1
        BY <1>1, <3>1
      <3>. QED BY <1>1, <1>6, <3>1, <3>2
    <2>2. ASSUME NEW k \in changes(tr, n + 1) PROVE k \in changes(new, n + 2)
      <3>1. k \in 1 .. n /\ Changes(tr[k], FileFd)
        BY <1>6
      <3>. QED BY <1>1, <1>6, <3>1
    <2>. QED BY <2>1, <2>2
  <1>8. Changes(e, FileFd) => Latest(changes(new, n + 2)) = n + 1 /\ changes(new, n + 2) # {}
    <2>. SUFFICES ASSUME Changes(e, FileFd)
                  PROVE  Latest(changes(new, n + 2)) = n + 1 /\ changes(new, n + 2) # {}
      OBVIOUS
    <2>. DEFINE S == changes(new, n + 2)
    <2>1. n + 1 \in S /\ S \subseteq 1 .. n + 1
      BY <1>1, <1>6
    <2>. HIDE DEF S
    <2>2. S \in SUBSET Nat /\ \A k \in S : k <= n + 1
      BY <1>1, <2>1
    <2>3. Latest(S) = n + 1
      BY <2>1, <2>2, LatestIs
    <2>. QED BY <2>1, <2>3 DEF S
  <1>. HIDE DEF changes
  <1>9. ASSUME NEW i \in 1 .. n + 1 PROVE Resource(new, FileFd, i) = Resource(tr, FileFd, i)
    <2>1. changes(tr, i) # {} => last(new, i) = last(tr, i)
      BY <1>1, <1>4, <1>5
    <2>. HIDE DEF last
    <2>. QED BY <1>3, <1>4, <2>1
  <1>10. ~Changes(e, FileFd) => Resource(new, FileFd, n + 2) = Resource(tr, FileFd, n + 1)
    <2>. SUFFICES ASSUME ~Changes(e, FileFd)
                  PROVE  Resource(new, FileFd, n + 2) = Resource(tr, FileFd, n + 1)
      OBVIOUS
    <2>1. changes(tr, n + 1) # {} => last(new, n + 2) = last(tr, n + 1)
      BY <1>1, <1>5, <1>6, <1>7
    <2>. HIDE DEF last
    <2>. QED BY <1>3, <1>7, <2>1
  <1>11. Changes(e, FileFd) => Resource(new, FileFd, n + 2)
                      = IF e.call = "open" /\ e.result = "ok" THEN e.file ELSE Unresolved
    <2>. SUFFICES ASSUME Changes(e, FileFd)
                  PROVE  Resource(new, FileFd, n + 2)
                           = IF e.call = "open" /\ e.result = "ok" THEN e.file ELSE Unresolved
      OBVIOUS
    <2>1. last(new, n + 2) = e
      BY <1>1, <1>8
    <2>. HIDE DEF last
    <2>. QED BY <1>3, <1>8, <2>1
  <1>. QED BY <1>9, <1>10, <1>11 DEF n, new

(* A number denotes a file that was opened, or nothing that is known. *)
LEMMA ResourceOpened ==
    ASSUME NEW tr \in Seq(CallRecord), NEW i \in 1 .. Len(tr) + 1,
           \A e \in ToSet(tr) : e.call = "open" => e.file # NoFile
    PROVE  Resource(tr, FileFd, i) # NoFile
  <1>. DEFINE n == Len(tr)
              S == {k \in 1 .. i - 1 : Changes(tr[k], FileFd)}
  <1>1. n \in Nat /\ DOMAIN tr = 1 .. n /\ i \in 1 .. n + 1
    BY LenProperties
  <1>2. S \subseteq 1 .. n
    BY <1>1
  <1>3. Resource(tr, FileFd, i)
          = IF S = {} THEN Unresolved
            ELSE IF tr[Latest(S)].call = "open" /\ tr[Latest(S)].result = "ok"
                 THEN tr[Latest(S)].file ELSE Unresolved
    BY DEF Resource, Changes, FileFd, BadFd
  <1>. HIDE DEF S, n
  <1>4. Unresolved # NoFile
    BY DEF Unresolved, NoFile
  <1>5. S # {} => Latest(S) \in 1 .. n
    <2>. SUFFICES ASSUME S # {} PROVE Latest(S) \in 1 .. n
      OBVIOUS
    <2>1. S \in SUBSET Nat /\ \A k \in S : k <= n
      BY <1>1, <1>2
    <2>2. PICK k \in S : \A m \in S : m <= k
      BY <1>1, <2>1, GreatestNumber
    <2>3. Latest(S) = k
      BY <2>1, <2>2, LatestIs
    <2>. QED BY <1>2, <2>2, <2>3
  <1>6. S # {} => tr[Latest(S)] \in ToSet(tr)
    BY <1>1, <1>5 DEF ToSet
  <1>. QED BY <1>3, <1>4, <1>6

LEMMA MarkersLonger ==
    ASSUME NEW tr \in Seq(CallRecord), NEW e \in CallRecord
    PROVE  /\ MarkersOf(tr) \in Seq(CallRecord)
           /\ MarkersOf(Append(tr, e)) = IF e.call \in Markers THEN Append(MarkersOf(tr), e)
                                         ELSE MarkersOf(tr)
  <1>. DEFINE n == Len(tr)
              new == Append(tr, e)
              mark(c) == IF c.call \in Markers THEN <<c>> ELSE <<>>
              f == [i \in DOMAIN tr |-> mark(tr[i])]
              g == [i \in DOMAIN new |-> mark(new[i])]
  <1>1. /\ n \in Nat /\ DOMAIN tr = 1 .. n /\ DOMAIN new = 1 .. n + 1
        /\ new[n + 1] = e /\ \A i \in 1 .. n : new[i] = tr[i]
        /\ \A i \in 1 .. n : tr[i] \in CallRecord
    BY TraceLonger, LenProperties
  <1>2. MarkersOf(tr) = FlattenSeq(f) /\ MarkersOf(new) = FlattenSeq(g)
    BY DEF MarkersOf
  <1>3. \A c \in CallRecord : mark(c) \in Seq(CallRecord)
    OBVIOUS
  <1>. HIDE DEF n, new, mark
  <1>4. f \in Seq(Seq(CallRecord)) /\ Len(f) = n
    BY <1>1, <1>3
  <1>5. g \in Seq(Seq(CallRecord)) /\ Len(g) = n + 1
    <2>1. ASSUME NEW i \in 1 .. n + 1 PROVE mark(new[i]) \in Seq(CallRecord)
      <3>1. i \in 1 .. n \/ i = n + 1
        BY <1>1
      <3>2. new[i] \in CallRecord
        BY <1>1, <3>1
      <3>. QED BY <1>3, <3>2
    <2>. QED BY <1>1, <2>1, SMTT(20)
  <1>6. \A i \in 1 .. n : g[i] = f[i]
    BY <1>1
  <1>7. g[n + 1] = mark(e)
    BY <1>1
  <1>. HIDE DEF f, g
  <1>8. g = Append(f, mark(e))
    <2>1. /\ Append(f, mark(e)) \in Seq(Seq(CallRecord)) /\ Len(Append(f, mark(e))) = n + 1
          /\ \A i \in 1 .. n : Append(f, mark(e))[i] = f[i]
          /\ Append(f, mark(e))[n + 1] = mark(e)
      BY <1>3, <1>4, AppendProperties
    <2>2. \A i \in 1 .. n + 1 : i \in 1 .. n \/ i = n + 1
      BY <1>1
    <2>3. \A i \in 1 .. n + 1 : g[i] = Append(f, mark(e))[i]
      BY <1>6, <1>7, <2>1, <2>2
    <2>. QED BY <1>5, <2>1, <2>3, SeqEqual
  <1>9. FlattenSeq(g) = FlattenSeq(f) \o mark(e) /\ FlattenSeq(f) \in Seq(CallRecord)
    BY <1>3, <1>4, <1>8, FlattenAppend, FlattenType
  <1>. DEFINE before == FlattenSeq(f)
  <1>. HIDE DEF before
  <1>10. before \o <<e>> = Append(before, e) /\ before \o <<>> = before
    <2>1. before \in Seq(CallRecord)
      BY <1>9 DEF before
    <2>. QED BY <2>1
  <1>. QED BY <1>2, <1>9, <1>10 DEF before, mark, new

(* The rows of a trace are those of its calls. *)
LEMMA RowsAre ==
    ASSUME NEW tr \in Seq(CallRecord)
    PROVE  /\ Rows(tr) \in Seq(RowRecord)
           /\ \A r : r \in ToSet(Rows(tr)) <=> \E i \in DOMAIN tr : r \in ToSet(tr[i].rows)
  <1>. DEFINE f == [i \in DOMAIN tr |-> tr[i].rows]
  <1>1. DOMAIN tr = 1 .. Len(tr) /\ Len(tr) \in Nat /\ \A i \in 1 .. Len(tr) : tr[i] \in CallRecord
    BY LenProperties
  <1>2. \A i \in 1 .. Len(tr) : tr[i].rows \in Seq(RowRecord)
    BY <1>1 DEF CallRecord
  <1>3. f \in Seq(Seq(RowRecord)) /\ DOMAIN f = DOMAIN tr
    BY <1>1, <1>2
  <1>4. \A i \in DOMAIN tr : f[i] = tr[i].rows
    OBVIOUS
  <1>5. Rows(tr) = FlattenSeq(f)
    BY DEF Rows
  <1>. HIDE DEF f
  <1>. QED BY <1>3, <1>4, <1>5, FlattenType

-----------------------------------------------------------------------------
(* What the program writes, and what can be told of it. *)
LEMMA RowStays ==
    ASSUME RingTypes, RingTypes', mode' = mode, taken <= taken', truth \subseteq truth',
           NEW r, KnownRow(r)
    PROVE  KnownRow(r)'
  <1>1. ASSUME r.kind = "sqe"
        PROVE  \E j \in 1 .. taken', i \in {1, 2} :
                  r = Row("sqe", IdOf(j, i), JobOps[i], FdOf(JobOps[i]), "none", r.batch)
    <2>1. PICK j \in 1 .. taken, i \in {1, 2} :
             r = Row("sqe", IdOf(j, i), JobOps[i], FdOf(JobOps[i]), "none", r.batch)
      BY <1>1 DEF KnownRow
    <2>2. j \in 1 .. taken'
      BY DEF RingTypes
    <2>. QED BY <2>1, <2>2
  <1>2. r.kind = "sqe" /\ mode' = "helper" => r.batch = 1
    BY DEF KnownRow
  <1>3. r.kind = "cqe" => \E t \in truth' : t.id = r.id /\ t.result = r.result
    BY DEF KnownRow
  <1>. QED BY <1>1, <1>2, <1>3 DEF KnownRow

LEMMA CallStays ==
    ASSUME RingTypes, RingTypes', mode' = mode, taken <= taken', truth \subseteq truth',
           NEW e, KnownCall(e)
    PROVE  KnownCall(e)'
  <1>1. \A r \in ToSet(e.rows) : KnownRow(r)'
    BY RowStays DEF KnownCall
  <1>. QED BY <1>1 DEF KnownCall

(* A call that fails writes what it would have written. *)
LEMMA CallFails ==
    ASSUME NEW e \in CallRecord, KnownCall(e), NEW result, result # "ok"
    PROVE  KnownCall([e EXCEPT !.result = result])
  <1>. DEFINE d == [e EXCEPT !.result = result]
  <1>1. /\ d.rows = e.rows /\ d.call = e.call /\ d.fd = e.fd /\ d.file = e.file
        /\ d.result = result
    BY DEF CallRecord
  <1>. HIDE DEF d
  <1>2. KnownCall(d)
    BY <1>1 DEF KnownCall
  <1>. QED BY <1>2 DEF d

LEMMA EnterKnown ==
    ASSUME RingTypes, BatchKnown, HelperKnown, batch # <<>>
    PROVE  KnownCall(Enter)
  <1>1. Enter.call = "enter" /\ Enter.rows = <<>> /\ Enter.count = 2 * Len(batch)
    BY EnterIs
  <1>2. mode = "helper" => Len(batch) = 1
    <2>1. Len(batch) \in Nat /\ Len(batch) # 0
      BY LenProperties, EmptySeq DEF BatchKnown
    <2>. QED BY <2>1 DEF HelperKnown, RingTypes
  <1>3. ToSet(Enter.rows) = {}
    BY <1>1 DEF ToSet
  <1>4. mode = "helper" => Enter.count = 2
    <2>. HIDE DEF Enter
    <2>1. Len(batch) = 1 => 2 * Len(batch) = 2
      OBVIOUS
    <2>. QED BY <1>1, <1>2, <2>1
  <1>. QED BY <1>1, <1>3, <1>4 DEF KnownCall

LEMMA OneRow ==
    ASSUME NEW x
    PROVE  ToSet(<<x>>) = {x}
  BY DEF ToSet

(* The calls of a plan, and the rows that they write. *)
LEMMA PlanKnown ==
    ASSUME RingTypes, BatchKnown, HelperKnown, batch # <<>>, NEW n \in Nat,
           mode = "helper" => n = 1
    PROVE  /\ \A p \in 1 .. Len(PlanOf(n)) : KnownCall(PlanOf(n)[p]) /\ PlanOf(n)[p].result = "ok"
           /\ PlanOf(n)[1].call # "open"
           /\ mode = "shared" => \A id \in BatchIds : \E p \in 1 .. Len(PlanOf(n)) :
                 \E r \in ToSet(PlanOf(n)[p].rows) : r.kind = "sqe" /\ r.id = id
  <1>. DEFINE plan == PlanOf(n)
  <1>0. /\ Len(batch) \in Nat /\ Len(batch) # 0 /\ DOMAIN batch = 1 .. Len(batch)
        /\ mode \in {"shared", "helper"}
    BY LenProperties, EmptySeq DEF BatchKnown, RingTypes
  <1>1. /\ plan[Len(plan)] = Enter /\ Len(plan) \in 1 .. Len(plan)
        /\ mode = "shared" => /\ Len(plan) = 4 * Len(batch) + 1
                              /\ \A k \in DOMAIN batch, m \in 1 .. 4 :
                                    plan[4 * (k - 1) + m] = Block(k, n)[m]
        /\ mode = "helper" =>
             /\ Len(plan) = IF replaces THEN 4 ELSE 2
             /\ plan[1] = WriteOf(SqeRows(1, 1))
             /\ replaces => /\ plan[2] = [Call("close") EXCEPT !.fd = FileFd]
                            /\ plan[3] = [Call("open") EXCEPT !.fd = FileFd, !.file = "replacement"]
    BY PlanIs
  <1>2. KnownCall(Enter) /\ Enter.result = "ok"
    BY EnterKnown, EnterIs
  <1>3. ASSUME NEW k \in DOMAIN batch, NEW i \in {1, 2}
        PROVE  /\ KnownRow(SqeRows(k, n)[i])
               /\ KnownCall(WriteOf(<<SqeRows(k, n)[i]>>))
               /\ WriteOf(<<SqeRows(k, n)[i]>>).result = "ok"
               /\ WriteOf(<<SqeRows(k, n)[i]>>).call = "write"
               /\ WriteOf(<<SqeRows(k, n)[i]>>).rows = <<SqeRows(k, n)[i]>>
    <2>. DEFINE row == SqeRows(k, n)[i]
                write == WriteOf(<<row>>)
    <2>1. /\ row = Row("sqe", IdOf(batch[k], i), JobOps[i], FdOf(JobOps[i]), "none", n)
          /\ row \in RowRecord /\ row.kind = "sqe" /\ row.batch = n
      BY SubmissionRow
    <2>2. batch[k] \in 1 .. taken
      BY IdsOfBatch
    <2>. HIDE DEF row
    <2>3. KnownRow(row)
      <3>1. \E j \in 1 .. taken, m \in {1, 2} :
               row = Row("sqe", IdOf(j, m), JobOps[m], FdOf(JobOps[m]), "none", row.batch)
        BY <2>1, <2>2
      <3>. QED BY <2>1, <3>1 DEF KnownRow
    <2>4. write.call = "write" /\ write.rows = <<row>> /\ write.result = "ok"
      <3>1. <<row>> \in Seq(RowRecord)
        BY <2>1
      <3>. QED BY <3>1, CallKinds
    <2>5. KnownCall(write)
      <3>. HIDE DEF write
      <3>. QED BY <2>3, <2>4, OneRow DEF KnownCall
    <2>. QED BY <2>3, <2>4, <2>5 DEF row
  <1>4. ASSUME NEW k \in DOMAIN batch, NEW kind \in {"IPC_ENTER", "IPC_LEAVE"}
        PROVE  /\ KnownCall(MarkerOf(kind, batch[k])) /\ MarkerOf(kind, batch[k]).result = "ok"
               /\ MarkerOf(kind, batch[k]).call # "open"
    <2>1. batch[k] \in Nat
      BY IdsOfBatch
    <2>2. /\ MarkerOf(kind, batch[k]).rows = <<>> /\ MarkerOf(kind, batch[k]).call = kind
          /\ MarkerOf(kind, batch[k]).result = "ok"
      BY <2>1, CallKinds
    <2>3. ToSet(<<>>) = {}
      BY DEF ToSet
    <2>. QED BY <2>2, <2>3 DEF KnownCall
  <1>. HIDE DEF plan
  <1>5. CASE mode = "shared"
    <2>1. ASSUME NEW k \in DOMAIN batch, NEW m \in 1 .. 4
          PROVE  KnownCall(plan[4 * (k - 1) + m]) /\ plan[4 * (k - 1) + m].result = "ok"
      <3>1. plan[4 * (k - 1) + m] = Block(k, n)[m]
        BY <1>1, <1>5
      <3>2. m = 1 \/ m = 2 \/ m = 3 \/ m = 4
        OBVIOUS
      <3>. QED BY <1>3, <1>4, <3>1, <3>2 DEF Block
    <2>2. ASSUME NEW p \in 1 .. Len(plan)
          PROVE  KnownCall(plan[p]) /\ plan[p].result = "ok"
      <3>1. p = Len(plan) \/ p \in 1 .. 4 * Len(batch)
        BY <1>0, <1>1, <1>5
      <3>2. ASSUME p \in 1 .. 4 * Len(batch)
            PROVE  \E k \in DOMAIN batch, m \in 1 .. 4 : p = 4 * (k - 1) + m
        <4>1. \E k \in 1 .. Len(batch), m \in 1 .. 4 : p = 4 * (k - 1) + m
          BY <1>0, <3>2, PositionIs, Zenon
        <4>. QED BY <1>0, <4>1
      <3>. QED BY <1>1, <1>2, <2>1, <3>1, <3>2
    <2>3. plan[1].call # "open"
      <3>1. 1 \in DOMAIN batch /\ 4 * (1 - 1) + 1 = 1 /\ 1 \in 1 .. 4
        BY <1>0
      <3>2. plan[4 * (1 - 1) + 1] = Block(1, n)[1]
        BY <1>1, <1>5, <3>1
      <3>. QED BY <1>4, <3>1, <3>2 DEF Block
    <2>4. ASSUME NEW id \in BatchIds
          PROVE  \E p \in 1 .. Len(plan) :
                    \E r \in ToSet(plan[p].rows) : r.kind = "sqe" /\ r.id = id
      <3>1. PICK k \in DOMAIN batch, i \in {1, 2} : id = IdOf(batch[k], i)
        BY BatchIdsAre
      <3>. DEFINE p == 4 * (k - 1) + (i + 1)
                  row == SqeRows(k, n)[i]
      <3>2. i + 1 \in 1 .. 4 /\ p \in 1 .. 4 * Len(batch) + 1
        BY <1>0
      <3>3. plan[p] = Block(k, n)[i + 1]
        BY <1>1, <1>5, <3>2
      <3>4. Block(k, n)[i + 1] = WriteOf(<<row>>)
        BY DEF Block
      <3>5. row.kind = "sqe" /\ row.id = id
        BY <3>1, SubmissionRow
      <3>6. WriteOf(<<row>>).rows = <<row>>
        BY <1>3
      <3>. HIDE DEF row
      <3>7. row \in ToSet(plan[p].rows)
        BY <3>3, <3>4, <3>6, OneRow
      <3>. HIDE DEF p
      <3>. QED BY <1>1, <1>5, <3>2, <3>5, <3>7
    <2>. QED BY <1>5, <2>2, <2>3, <2>4 DEF plan
  <1>6. CASE mode = "helper"
    <2>. DEFINE rows == SqeRows(1, 1)
                close == [Call("close") EXCEPT !.fd = FileFd]
                open == [Call("open") EXCEPT !.fd = FileFd, !.file = "replacement"]
                write == WriteOf(rows)
    <2>1. /\ rows \in Seq(RowRecord) /\ Len(rows) = 2
          /\ write.call = "write" /\ write.rows = rows /\ write.result = "ok"
          /\ close.call = "close" /\ close.fd = FileFd /\ close.rows = <<>>
          /\ close.result = "ok"
          /\ open.call = "open" /\ open.fd = FileFd /\ open.file = "replacement"
          /\ open.rows = <<>> /\ open.result = "ok"
      BY HelperPlan
    <2>2. \A r \in ToSet(rows) : KnownRow(r)
      <3>0. 1 \in DOMAIN batch /\ n = 1
        BY <1>0, <1>6
      <3>1. \A i \in {1, 2} : KnownRow(rows[i])
        BY <1>3, <3>0
      <3>2. DOMAIN rows = {1, 2}
        BY DEF SqeRows, JobOps
      <3>. HIDE DEF rows
      <3>. QED BY <3>1, <3>2 DEF ToSet
    <2>. HIDE DEF rows, close, open, write
    <2>3. ToSet(<<>>) = {} /\ mode # "shared"
      BY <1>6 DEF ToSet
    <2>4. KnownCall(write) /\ KnownCall(close) /\ KnownCall(open)
      BY <2>1, <2>2, <2>3 DEF KnownCall
    <2>5. /\ plan[1] = write /\ Len(plan) = IF replaces THEN 4 ELSE 2
          /\ replaces => plan[2] = close /\ plan[3] = open
      BY <1>1, <1>6 DEF write, rows, close, open
    <2>6. \A p \in 1 .. Len(plan) : p = 1 \/ p = Len(plan) \/ (replaces /\ (p = 2 \/ p = 3))
      BY <2>5
    <2>7. \A p \in 1 .. Len(plan) : KnownCall(plan[p]) /\ plan[p].result = "ok"
      BY <1>1, <1>2, <2>1, <2>4, <2>5, <2>6
    <2>. QED BY <1>6, <2>1, <2>5, <2>7 DEF plan
  <1>. QED BY <1>0, <1>5, <1>6

LEMMA NothingForgotten ==
    ASSUME RingTypes, RingNext
    PROVE  mode' = mode /\ taken <= taken' /\ truth \subseteq truth' /\ replaces' = replaces
  <1>1. taken \in Nat
    BY DEF RingTypes
  <1>2. CASE CompleteOperation
    BY <1>1, <1>2 DEF CompleteOperation, started
  <1>3. CASE Take
    BY <1>1, <1>3 DEF Take, started, kernel
  <1>4. CASE Dispatcher \/ Submit \/ EnterRing
    BY <1>1, <1>4 DEF Dispatcher, SendJob, CloseInput, Submit, EnterRing, started, kernel
  <1>6. CASE Perform
    BY <1>1, <1>6 DEF Perform, started, kernel
  <1>7. CASE Torn
    <2>1. mode' = mode /\ taken' = taken /\ truth' = truth /\ replaces' = replaces
      BY <1>7 DEF Torn, started, kernel
    <2>. QED BY <1>1, <2>1
  <1>8. CASE Killed
    BY <1>1, <1>8 DEF Killed, started, kernel
  <1>5. CASE Return \/ Drain \/ Finish \/ DrainHelper \/ ExitHelper
    BY <1>1, <1>5 DEF Return, Drain, Finish, DrainHelper, ExitHelper, started, kernel
  <1>. QED BY <1>2, <1>3, <1>4, <1>5, <1>6, <1>7, <1>8 DEF RingNext, Program

LEMMA CallsFrame ==
    ASSUME RingTypes, RingTypes', CallsKnown,
           mode' = mode, taken <= taken', truth \subseteq truth',
           \A r \in ToSet(sidecar') : r \in ToSet(sidecar) \/ KnownRow(r),
           \A e \in ToSet(trace') : e \in ToSet(trace) \/ KnownCall(e),
           \A e \in ToSet(todo') : e \in ToSet(todo) \/ (KnownCall(e) /\ e.result = "ok")
    PROVE  CallsKnown'
  <1>1. \A r \in ToSet(sidecar') : KnownRow(r)'
    BY RowStays DEF CallsKnown
  <1>2. \A e \in ToSet(trace') : KnownCall(e)'
    BY CallStays DEF CallsKnown
  <1>3. \A e \in ToSet(todo') : KnownCall(e)' /\ e.result = "ok"
    BY CallStays DEF CallsKnown
  <1>. QED BY <1>1, <1>2, <1>3 DEF CallsKnown

(* What the effects of a call are, and whose rows they are. *)
LEMMA EffectsKnown ==
    ASSUME RingTypes, NEW e \in CallRecord, KnownCall(e),
           Effects(e) \/ UNCHANGED <<sidecar, native, file>>
    PROVE  /\ \A r \in ToSet(sidecar') : r \in ToSet(sidecar) \/ KnownRow(r)
           /\ ToSet(sidecar) \subseteq ToSet(sidecar')
           /\ Effects(e) /\ mode = "shared" => ToSet(e.rows) \subseteq ToSet(sidecar')
  <1>1. sidecar \in Seq(RowRecord) /\ e.rows \in Seq(RowRecord)
    BY DEF RingTypes, CallRecord
  <1>2. ToSet(sidecar \o e.rows) = ToSet(sidecar) \cup ToSet(e.rows)
    BY <1>1, ConcatSet
  <1>3. \/ sidecar' = sidecar
        \/ sidecar' = sidecar \o e.rows
    BY DEF Effects
  <1>4. \A r \in ToSet(e.rows) : KnownRow(r)
    BY DEF KnownCall
  <1>5. e.call # "write" => ToSet(e.rows) = {}
    BY DEF KnownCall, ToSet
  <1>6. Effects(e) /\ mode = "shared" /\ e.call = "write" => sidecar' = sidecar \o e.rows
    BY DEF Effects
  <1>. QED BY <1>2, <1>3, <1>4, <1>5, <1>6

LEMMA HeadKnown ==
    ASSUME RingTypes, CallsKnown, todo # <<>>
    PROVE  /\ Head(todo) \in CallRecord /\ Head(todo) \in ToSet(todo)
           /\ KnownCall(Head(todo)) /\ Head(todo).result = "ok"
           /\ ToSet(todo) = {Head(todo)} \cup ToSet(Tail(todo))
  <1>1. todo \in Seq(CallRecord)
    BY DEF RingTypes
  <1>2. /\ Head(todo) \in ToSet(todo) /\ Head(todo) \in CallRecord
        /\ ToSet(todo) = {Head(todo)} \cup ToSet(Tail(todo))
    BY <1>1, TailSet
  <1>. QED BY <1>2 DEF CallsKnown

LEMMA NoCalls == ToSet(<<>>) = {}
  BY DEF ToSet

LEMMA CallsPerformed ==
    ASSUME KernelInv, RingTypes', CallsKnown, Perform
    PROVE  CallsKnown'
  <1>. DEFINE e == Head(todo)
  <1>1. /\ todo # <<>> /\ Effects(e) /\ todo' = Tail(todo)
        /\ trace' = Append(trace, e) \/ trace' = trace
    BY DEF Perform, Recorded, Missed
  <1>2. mode' = mode /\ taken' = taken /\ truth' = truth
    BY DEF Perform, started, kernel
  <1>3. RingTypes /\ trace \in Seq(CallRecord) /\ taken \in Nat
    BY DEF KernelInv, RingTypes
  <1>4. /\ e \in CallRecord /\ KnownCall(e) /\ e.result = "ok"
        /\ ToSet(todo) = {e} \cup ToSet(Tail(todo))
    BY <1>1, <1>3, HeadKnown
  <1>. HIDE DEF e
  <1>5. ToSet(Append(trace, e)) = ToSet(trace) \cup {e}
    BY <1>3, <1>4, TraceLonger
  <1>6. \A r \in ToSet(sidecar') : r \in ToSet(sidecar) \/ KnownRow(r)
    BY <1>1, <1>3, <1>4, EffectsKnown
  <1>7. \A c \in ToSet(trace') : c \in ToSet(trace) \/ KnownCall(c)
    BY <1>1, <1>4, <1>5
  <1>8. \A c \in ToSet(todo') : c \in ToSet(todo)
    BY <1>1, <1>4
  <1>. QED BY <1>2, <1>3, <1>6, <1>7, <1>8, CallsFrame

LEMMA CallsTorn ==
    ASSUME KernelInv, RingTypes', CallsKnown, Torn
    PROVE  CallsKnown'
  <1>. DEFINE e == Head(todo)
              short == [e EXCEPT !.result = "short"]
              row == Row("torn", 0, "", 0, "", 0)
  <1>1. /\ todo # <<>> /\ todo' = <<>> /\ trace' = Append(trace, short)
        /\ sidecar' = Append(sidecar, row) \/ sidecar' = sidecar
    BY DEF Torn
  <1>2. mode' = mode /\ taken' = taken /\ truth' = truth
    BY DEF Torn, started, kernel
  <1>3. RingTypes /\ trace \in Seq(CallRecord) /\ taken \in Nat /\ sidecar \in Seq(RowRecord)
    BY DEF KernelInv, RingTypes
  <1>4. e \in CallRecord /\ KnownCall(e)
    BY <1>1, <1>3, HeadKnown
  <1>. HIDE DEF e
  <1>5. KnownCall(short) /\ short \in CallRecord
    BY <1>4, CallFails DEF CallRecord
  <1>6. row \in RowRecord /\ KnownRow(row)
    <2>1. row.kind = "torn"
      BY DEF Row
    <2>2. row \in RowRecord
      BY DEF Row, RowRecord
    <2>. HIDE DEF row
    <2>. QED BY <2>1, <2>2 DEF KnownRow
  <1>. HIDE DEF short, row
  <1>7. ToSet(trace') = ToSet(trace) \cup {short}
    BY <1>1, <1>3, <1>5, TraceLonger
  <1>8. ToSet(Append(sidecar, row)) = ToSet(sidecar) \cup {row}
    BY <1>3, <1>6, AppendSet
  <1>9. \A r \in ToSet(sidecar') : r \in ToSet(sidecar) \/ KnownRow(r)
    BY <1>1, <1>6, <1>8
  <1>10. \A c \in ToSet(trace') : c \in ToSet(trace) \/ KnownCall(c)
    BY <1>5, <1>7
  <1>11. ToSet(todo') = {}
    BY <1>1, NoCalls
  <1>. QED BY <1>2, <1>3, <1>9, <1>10, <1>11, CallsFrame

LEMMA CallsKilled ==
    ASSUME KernelInv, RingTypes', CallsKnown, Killed
    PROVE  CallsKnown'
  <1>. DEFINE e == Head(todo)
              unknown == [e EXCEPT !.result = "unknown"]
              enter == [Call("enter") EXCEPT !.result = "unknown"]
  <1>1. /\ todo' = <<>>
        /\ \/ trace' = trace /\ sidecar' = sidecar
           \/ /\ todo # <<>> /\ trace' = Append(trace, unknown)
              /\ Effects(e) \/ UNCHANGED <<sidecar, native, file>>
           \/ trace' = Append(trace, enter) /\ sidecar' = sidecar
    BY DEF Killed, output
  <1>2. mode' = mode /\ taken' = taken /\ truth' = truth
    BY DEF Killed, started, kernel
  <1>3. RingTypes /\ trace \in Seq(CallRecord) /\ taken \in Nat
    BY DEF KernelInv, RingTypes
  <1>4. ToSet(todo') = {}
    BY <1>1, NoCalls
  <1>5. CASE trace' = trace /\ sidecar' = sidecar
    BY <1>2, <1>3, <1>4, <1>5, CallsFrame
  <1>6. CASE /\ todo # <<>> /\ trace' = Append(trace, unknown)
             /\ Effects(e) \/ UNCHANGED <<sidecar, native, file>>
    <2>1. e \in CallRecord /\ KnownCall(e)
      BY <1>3, <1>6, HeadKnown
    <2>. HIDE DEF e
    <2>2. KnownCall(unknown) /\ unknown \in CallRecord
      BY <2>1, CallFails DEF CallRecord
    <2>. HIDE DEF unknown
    <2>3. ToSet(trace') = ToSet(trace) \cup {unknown}
      BY <1>3, <1>6, <2>2, TraceLonger
    <2>4. \A r \in ToSet(sidecar') : r \in ToSet(sidecar) \/ KnownRow(r)
      BY <1>3, <1>6, <2>1, EffectsKnown
    <2>5. \A c \in ToSet(trace') : c \in ToSet(trace) \/ KnownCall(c)
      BY <2>2, <2>3
    <2>. QED BY <1>2, <1>3, <1>4, <2>4, <2>5, CallsFrame
  <1>7. CASE trace' = Append(trace, enter) /\ sidecar' = sidecar
    <2>1. /\ Call("enter") \in CallRecord /\ Call("enter").rows = <<>>
          /\ Call("enter").call = "enter"
      BY CallKinds DEF CallNames
    <2>2. /\ enter \in CallRecord /\ enter.rows = <<>> /\ enter.call = "enter"
          /\ enter.result = "unknown"
      BY <2>1 DEF CallRecord
    <2>. HIDE DEF enter
    <2>3. KnownCall(enter)
      BY <2>2, NoCalls DEF KnownCall
    <2>4. ToSet(trace') = ToSet(trace) \cup {enter}
      BY <1>3, <1>7, <2>2, TraceLonger
    <2>5. \A c \in ToSet(trace') : c \in ToSet(trace) \/ KnownCall(c)
      BY <2>3, <2>4
    <2>. QED BY <1>2, <1>3, <1>4, <1>7, <2>5, CallsFrame
  <1>. QED BY <1>1, <1>5, <1>6, <1>7

LEMMA CallsSubmitted ==
    ASSUME KernelInv, RingTypes', CallsKnown, Submit
    PROVE  CallsKnown'
  <1>1. /\ at = "gathering"
        /\ \/ todo' = todo
           \/ batch # <<>> /\ todo' = PlanOf(number + 1)
    BY DEF Submit, Gathering, PlanOf
  <1>2. /\ mode' = mode /\ taken' = taken /\ truth' = truth /\ trace' = trace
        /\ sidecar' = sidecar
    BY DEF Submit, started, kernel, output
  <1>3. RingTypes /\ BatchKnown /\ HelperKnown /\ taken \in Nat /\ number \in Nat
    BY DEF KernelInv, RingTypes
  <1>4. CASE todo' = todo
    BY <1>2, <1>3, <1>4, CallsFrame
  <1>5. CASE batch # <<>> /\ todo' = PlanOf(number + 1)
    <2>1. number + 1 \in Nat /\ (mode = "helper" => number + 1 = 1)
      BY <1>1, <1>3 DEF HelperKnown
    <2>2. \A p \in 1 .. Len(todo') : KnownCall(todo'[p]) /\ todo'[p].result = "ok"
      BY <1>3, <1>5, <2>1, PlanKnown
    <2>3. DOMAIN todo' = 1 .. Len(todo')
      BY LenProperties DEF RingTypes
    <2>4. \A c \in ToSet(todo') : KnownCall(c) /\ c.result = "ok"
      BY <2>2, <2>3 DEF ToSet
    <2>. QED BY <1>2, <1>3, <2>4, CallsFrame
  <1>. QED BY <1>1, <1>4, <1>5

LEMMA CallsReturned ==
    ASSUME KernelInv, RingTypes', CallsKnown, Return
    PROVE  CallsKnown'
  <1>. DEFINE short == [Enter EXCEPT !.result = "short"]
  <1>1. /\ at \in {"waiting", "short"}
        /\ trace' \in {trace, Append(trace, Enter), Append(trace, short)}
    BY DEF Return, Recorded, Missed
  <1>2. /\ mode' = mode /\ taken' = taken /\ truth' = truth /\ sidecar' = sidecar
        /\ todo' = todo
    BY DEF Return, started, kernel
  <1>3. /\ RingTypes /\ BatchKnown /\ HelperKnown /\ taken \in Nat /\ trace \in Seq(CallRecord)
        /\ batch # <<>>
    BY <1>1 DEF KernelInv, RingTypes, BatchKnown
  <1>4. Enter \in CallRecord /\ KnownCall(Enter)
    BY <1>3, EnterIs, EnterKnown
  <1>5. short \in CallRecord /\ KnownCall(short)
    <2>. HIDE DEF Enter
    <2>. QED BY <1>4, CallFails DEF CallRecord
  <1>. HIDE DEF short
  <1>6. \A c \in ToSet(trace') : c \in ToSet(trace) \/ KnownCall(c)
    <2>1. /\ ToSet(Append(trace, Enter)) = ToSet(trace) \cup {Enter}
          /\ ToSet(Append(trace, short)) = ToSet(trace) \cup {short}
      BY <1>3, <1>4, <1>5, TraceLonger
    <2>2. \/ trace' = trace
          \/ trace' = Append(trace, Enter)
          \/ trace' = Append(trace, short)
      BY <1>1
    <2>3. \/ ToSet(trace') = ToSet(trace)
          \/ ToSet(trace') = ToSet(trace) \cup {Enter}
          \/ ToSet(trace') = ToSet(trace) \cup {short}
      BY <2>1, <2>2
    <2>. HIDE DEF Enter
    <2>. QED BY <1>4, <1>5, <2>3
  <1>. QED BY <1>2, <1>3, <1>6, CallsFrame

(* The rows of completions. *)
LEMMA CompletionKnown ==
    ASSUME KernelInv, cq # <<>>
    PROVE  /\ CqeRow(Head(cq)) \in RowRecord /\ KnownRow(CqeRow(Head(cq)))
           /\ CqeRow(Head(cq)).kind = "cqe"
  <1>. DEFINE c == cq[1]
  <1>1. /\ Head(cq) = c /\ c \in CompletionRecord /\ 1 \in DOMAIN cq /\ number \in Nat
    <2>1. cq \in Seq(CompletionRecord) /\ number \in Nat
      BY DEF KernelInv, RingTypes
    <2>. QED BY <2>1, HeadTailProperties, LenProperties, EmptySeq
  <1>2. PICK t \in truth : t.id = c.id /\ t.result = c.result
    BY <1>1 DEF KernelInv, CompletionsKnown
  <1>. HIDE DEF c
  <1>. DEFINE row == CqeRow(c)
  <1>3. row = Row("cqe", c.id, "none", 0, c.result, number)
    BY DEF CqeRow
  <1>4. c.id \in Nat /\ c.result \in {"whole", "EBADF", "error"}
    BY <1>1 DEF CompletionRecord
  <1>5. row \in RowRecord
    BY <1>1, <1>3, <1>4, CompletionRow
  <1>6. row.kind = "cqe" /\ row.id = c.id /\ row.result = c.result
    BY <1>3 DEF Row
  <1>. HIDE DEF row
  <1>7. KnownRow(row)
    BY <1>2, <1>6 DEF KnownRow
  <1>. QED BY <1>1, <1>5, <1>6, <1>7 DEF row

LEMMA RowsKnown ==
    ASSUME NEW rows \in Seq(RowRecord), \A r \in ToSet(rows) : KnownRow(r)
    PROVE  /\ KnownCall(WriteOf(rows)) /\ WriteOf(rows).result = "ok"
           /\ WriteOf(rows).rows = rows /\ WriteOf(rows).call = "write"
  <1>. DEFINE c == WriteOf(rows)
  <1>1. c.call = "write" /\ c.rows = rows /\ c.result = "ok"
    BY CallKinds
  <1>. HIDE DEF c
  <1>. QED BY <1>1 DEF KnownCall, c

LEMMA CallsDrained ==
    ASSUME KernelInv, KernelInv', CallsKnown, Drain \/ DrainHelper
    PROVE  CallsKnown'
  <1>1. /\ mode' = mode /\ taken' = taken /\ truth' = truth /\ trace' = trace
        /\ sidecar' = sidecar
    BY DEF Drain, DrainHelper, started, output
  <1>2. RingTypes /\ RingTypes' /\ taken \in Nat
    BY DEF KernelInv, RingTypes
  <1>3. \A c \in ToSet(todo') : c \in ToSet(todo) \/ (KnownCall(c) /\ c.result = "ok")
    <2>1. CASE Drain
      <3>1. cq # <<>> /\ (todo' = todo \/ todo' = <<WriteOf(<<CqeRow(Head(cq))>>)>>)
        BY <2>1 DEF Drain
      <3>. DEFINE row == CqeRow(Head(cq))
      <3>2. row \in RowRecord /\ KnownRow(row)
        BY <3>1, CompletionKnown
      <3>. HIDE DEF row
      <3>3. <<row>> \in Seq(RowRecord) /\ ToSet(<<row>>) = {row}
        BY <3>2, OneRow
      <3>4. KnownCall(WriteOf(<<row>>)) /\ WriteOf(<<row>>).result = "ok"
        BY <3>2, <3>3, RowsKnown
      <3>5. ToSet(<<WriteOf(<<row>>)>>) = {WriteOf(<<row>>)}
        BY OneRow
      <3>. QED BY <3>1, <3>4, <3>5 DEF row
    <2>2. CASE DrainHelper
      <3>1. todo' = todo \/ todo' = <<WriteOf(seen')>>
        BY <2>2 DEF DrainHelper, Flush
      <3>2. seen' \in Seq(RowRecord)
        BY <1>2 DEF RingTypes
      <3>3. \A r \in ToSet(seen') : KnownRow(r)
        <4>1. \A p \in DOMAIN seen' : KnownRow(seen'[p])
          BY <1>1 DEF KernelInv, CompletionsKnown, KnownRow
        <4>. QED BY <4>1 DEF ToSet
      <3>4. KnownCall(WriteOf(seen')) /\ WriteOf(seen').result = "ok"
        BY <3>2, <3>3, RowsKnown
      <3>5. ToSet(<<WriteOf(seen')>>) = {WriteOf(seen')}
        BY OneRow
      <3>. QED BY <3>1, <3>4, <3>5
    <2>. QED BY <2>1, <2>2
  <1>. QED BY <1>1, <1>2, <1>3, CallsFrame

LEMMA CallsStep ==
    ASSUME KernelInv, KernelInv', CallsKnown, [RingNext]_ringVars
    PROVE  CallsKnown'
  <1>1. RingTypes /\ RingTypes' /\ taken \in Nat
    BY DEF KernelInv, RingTypes
  <1>2. CASE UNCHANGED ringVars
    BY <1>1, <1>2, CallsFrame DEF ringVars
  <1>3. CASE Dispatcher \/ Take \/ EnterRing \/ Finish \/ ExitHelper \/ CompleteOperation
    <2>1. mode' = mode /\ taken <= taken' /\ truth \subseteq truth'
      BY <1>1, <1>3, NothingForgotten DEF RingNext, Program
    <2>2. /\ sidecar' = sidecar /\ trace' = trace
          /\ todo' = todo \/ todo' = <<>>
      BY <1>3 DEF Dispatcher, SendJob, CloseInput, Take, EnterRing, Finish, ExitHelper,
                  CompleteOperation, output
    <2>3. \A c \in ToSet(todo') : c \in ToSet(todo)
      BY <2>2, NoCalls
    <2>. QED BY <1>1, <2>1, <2>2, <2>3, CallsFrame
  <1>. QED BY <1>1, <1>2, <1>3, CallsPerformed, CallsTorn, CallsKilled, CallsSubmitted,
               CallsReturned, CallsDrained DEF RingNext, Program

-----------------------------------------------------------------------------
(* A submission is in the file before the ring is entered. *)
LEMMA SubmissionsStep ==
    ASSUME KernelInv, KernelInv', CallsKnown, SubmissionsWritten, [RingNext]_ringVars
    PROVE  SubmissionsWritten'
  <1>0. RingTypes /\ RingTypes' /\ BatchKnown /\ HelperKnown /\ TodoKnown /\ OperationsKnown
    BY DEF KernelInv
  <1>. SUFFICES ASSUME mode' = "shared"
                PROVE  SubmissionsWritten'
    BY DEF SubmissionsWritten
  <1>1. mode = "shared"
    BY <1>0, NothingForgotten DEF ringVars
  <1>. DEFINE Written(file1, id) == \E r \in ToSet(file1) : r.kind = "sqe" /\ r.id = id
              Coming(calls, id) == \E c \in ToSet(calls) :
                                      \E r \in ToSet(c.rows) : r.kind = "sqe" /\ r.id = id
  <1>2. /\ \A o \in inflight \cup truth : Written(sidecar, o.id)
        /\ Running /\ at = "submitting" =>
             \A id \in BatchIds : Written(sidecar, id) \/ Coming(todo, id)
    BY <1>1 DEF SubmissionsWritten
  <1>3. ASSUME \A o \in inflight' \cup truth' : Written(sidecar', o.id),
               Running' /\ at' = "submitting" =>
                 \A id \in BatchIds' : Written(sidecar', id) \/ Coming(todo', id)
        PROVE  SubmissionsWritten'
    BY <1>3 DEF SubmissionsWritten
  <1>4. ASSUME ToSet(sidecar) \subseteq ToSet(sidecar'), NEW id, Written(sidecar, id)
        PROVE  Written(sidecar', id)
    BY <1>4
  <1>. HIDE DEF Written
  <1>5. CASE UNCHANGED ringVars
    <2>1. BatchIds' = BatchIds /\ (Running' <=> Running)
      BY <1>5 DEF ringVars, BatchIds, Running
    <2>2. /\ inflight' = inflight /\ truth' = truth /\ sidecar' = sidecar /\ at' = at
          /\ todo' = todo
      BY <1>5 DEF ringVars
    <2>. HIDE DEF Coming
    <2>. QED BY <1>2, <1>3, <2>1, <2>2
  <1>6. CASE Dispatcher
    <2>1. BatchIds' = BatchIds /\ (Running' <=> Running)
      BY <1>6 DEF Dispatcher, SendJob, CloseInput, BatchIds, Running
    <2>2. /\ inflight' = inflight /\ truth' = truth /\ sidecar' = sidecar /\ at' = at
          /\ todo' = todo
      BY <1>6 DEF Dispatcher, SendJob, CloseInput, kernel, output
    <2>. HIDE DEF Coming
    <2>. QED BY <1>2, <1>3, <2>1, <2>2
  <1>7. CASE Perform
    <2>. DEFINE e == Head(todo)
    <2>1. /\ todo # <<>> /\ Effects(e) /\ todo' = Tail(todo) /\ at' = at /\ exit' = exit
          /\ taken' = taken /\ batch' = batch /\ inflight' = inflight /\ truth' = truth
      BY <1>7 DEF Perform, kernel
    <2>2. /\ e \in CallRecord /\ KnownCall(e) /\ ToSet(todo) = {e} \cup ToSet(Tail(todo))
      BY <1>0, <2>1, HeadKnown
    <2>. HIDE DEF e
    <2>3. ToSet(sidecar) \subseteq ToSet(sidecar') /\ ToSet(e.rows) \subseteq ToSet(sidecar')
      BY <1>0, <1>1, <2>1, <2>2, EffectsKnown
    <2>4. BatchIds' = BatchIds /\ (Running' <=> Running)
      BY <2>1 DEF BatchIds, Running
    <2>5. ASSUME NEW id, Coming(todo, id) PROVE Written(sidecar', id) \/ Coming(todo', id)
      <3>1. PICK c \in ToSet(todo) : \E r \in ToSet(c.rows) : r.kind = "sqe" /\ r.id = id
        BY <2>5
      <3>2. CASE c = e
        BY <2>3, <3>1, <3>2 DEF Written
      <3>3. CASE c \in ToSet(todo')
        BY <3>1, <3>3
      <3>. QED BY <2>1, <2>2, <3>2, <3>3
    <2>. HIDE DEF Coming
    <2>. QED BY <1>2, <1>3, <1>4, <2>1, <2>3, <2>4, <2>5
  <1>8. CASE Torn \/ Killed
    <2>1. /\ ~Running' /\ inflight' = inflight /\ truth' = truth
      BY <1>8 DEF Torn, Killed, kernel, Running
    <2>2. ToSet(sidecar) \subseteq ToSet(sidecar')
      <3>1. CASE Torn
        <4>. DEFINE row == Row("torn", 0, "", 0, "", 0)
        <4>1. sidecar' = Append(sidecar, row) \/ sidecar' = sidecar
          BY <3>1 DEF Torn
        <4>2. row \in RowRecord
          BY DEF Row, RowRecord
        <4>. HIDE DEF row
        <4>3. sidecar \in Seq(RowRecord)
          BY <1>0 DEF RingTypes
        <4>4. ToSet(Append(sidecar, row)) = ToSet(sidecar) \cup {row}
          BY <4>2, <4>3, AppendSet
        <4>. QED BY <4>1, <4>4
      <3>2. CASE Killed
        <4>1. sidecar' = sidecar \/ (todo # <<>> /\ (Effects(Head(todo)) \/ UNCHANGED <<sidecar, native, file>>))
          BY <3>2 DEF Killed, output
        <4>. QED BY <1>0, <4>1, HeadKnown, EffectsKnown
      <3>. QED BY <1>8, <3>1, <3>2
    <2>. QED BY <1>2, <1>3, <1>4, <2>1, <2>2
  <1>9. CASE Submit
    <2>1. /\ inflight' = inflight /\ truth' = truth /\ sidecar' = sidecar
          /\ taken' = taken /\ batch' = batch
          /\ \/ at' = "gathering"
             \/ batch # <<>> /\ todo' = PlanOf(number + 1)
      BY <1>9 DEF Submit, Gathering, PlanOf, kernel, output
    <2>2. BatchIds' = BatchIds
      BY <2>1 DEF BatchIds
    <2>3. at' # "gathering" => \A id \in BatchIds : Coming(todo', id)
      <3>. SUFFICES ASSUME at' # "gathering", NEW id \in BatchIds PROVE Coming(todo', id)
        OBVIOUS
      <3>1. batch # <<>> /\ todo' = PlanOf(number + 1) /\ number + 1 \in Nat
        BY <1>0, <2>1 DEF RingTypes
      <3>2. PICK p \in 1 .. Len(todo') :
               \E r \in ToSet(todo'[p].rows) : r.kind = "sqe" /\ r.id = id
        BY <1>0, <1>1, <3>1, PlanKnown
      <3>3. DOMAIN todo' = 1 .. Len(todo')
        BY <1>0, LenProperties DEF RingTypes
      <3>4. todo'[p] \in ToSet(todo')
        BY <3>3 DEF ToSet
      <3>. QED BY <3>2, <3>4
    <2>. HIDE DEF Coming
    <2>. QED BY <1>2, <1>3, <2>1, <2>2, <2>3
  <1>10. CASE EnterRing
    <2>1. /\ Running /\ at = "submitting" /\ todo = <<Enter>> /\ at' # "submitting"
          /\ inflight' \in {Submitted(Enter.count), Submitted(1)}
          /\ truth' = truth /\ sidecar' = sidecar
      BY <1>10 DEF EnterRing, output
    <2>2. ASSUME NEW o \in inflight' PROVE o.id \in BatchIds
      <3>1. Enter.count \in Nat /\ 1 \in Nat
        BY <1>0, EnterIs, LenProperties DEF BatchKnown
      <3>2. PICK k \in DOMAIN batch, i \in {1, 2} : o = Operation(batch[k], i)
        BY <1>0, <2>1, <3>1, SubmittedIs
      <3>. QED BY <1>0, <3>2, IdsOfBatch DEF Operation
    <2>3. \A id : ~Coming(todo, id)
      <3>1. Enter.rows = <<>>
        BY <1>0, EnterIs
      <3>2. ToSet(todo) = {Enter}
        BY <2>1, OneRow
      <3>. QED BY <3>1, <3>2, NoCalls
    <2>. HIDE DEF Coming
    <2>. QED BY <1>2, <1>3, <2>1, <2>2, <2>3
  <1>11. CASE CompleteOperation
    <2>a. PICK o \in inflight :
              /\ inflight' = inflight \ {o}
              /\ \E result : truth' = truth \cup {[id |-> o.id, op |-> o.op, job |-> o.job,
                                                  result |-> result, file |-> o.file]}
              /\ sidecar' = sidecar /\ at' = at
      BY <1>11 DEF CompleteOperation, output
    <2>b. PICK result : truth' = truth \cup {[id |-> o.id, op |-> o.op, job |-> o.job,
                                                  result |-> result, file |-> o.file]}
      BY <2>a
    <2>1. /\ inflight' = inflight \ {o} /\ sidecar' = sidecar /\ at' = at
          /\ \A t \in truth' : t \in truth \/ t.id = o.id
      BY <2>a, <2>b
    <2>2. at' # "submitting"
      BY <1>0, <2>1 DEF OperationsKnown
    <2>3. \A p \in inflight' \cup truth' : \E q \in inflight \cup truth : p.id = q.id
      BY <2>1
    <2>. QED BY <1>2, <1>3, <2>1, <2>2, <2>3
  <1>12. CASE Take \/ Return \/ Drain \/ Finish \/ DrainHelper \/ ExitHelper
    <2>1. /\ inflight' = inflight /\ truth' = truth /\ sidecar' = sidecar
      BY <1>12 DEF Take, Return, Drain, Finish, DrainHelper, ExitHelper, kernel, output
    <2>2. at' # "submitting"
      BY <1>12 DEF Take, Gathering, Return, Drain, Finish, DrainHelper, Draining, Flush,
                   ExitHelper
    <2>. QED BY <1>2, <1>3, <2>1, <2>2
  <1>. QED BY <1>5, <1>6, <1>7, <1>8, <1>9, <1>10, <1>11, <1>12 DEF RingNext, Program

(* While the program runs, the log has at least the markers of the trace. *)
LEMMA MarkersStep ==
    ASSUME KernelInv, CallsKnown, MarkersMatch, [RingNext]_ringVars
    PROVE  MarkersMatch'
  <1>0. RingTypes /\ BatchKnown /\ trace \in Seq(CallRecord) /\ native \in Seq(CallRecord)
    BY DEF KernelInv, RingTypes
  <1>1. Len(MarkersOf(trace)) \in Nat /\ Len(native) \in Nat /\ MarkersOf(trace) \in Seq(CallRecord)
    <2>1. Call("enter") \in CallRecord
      BY CallKinds DEF CallNames
    <2>. QED BY <1>0, <2>1, MarkersLonger, LenProperties
  <1>2. ASSUME NEW e \in CallRecord, e.result = "ok", Effects(e) \/ native' = native
        PROVE  \A c \in ToSet(native') : c.result = "ok"
    <2>1. native' = native \/ native' = Append(native, e)
      BY <1>2 DEF Effects
    <2>2. ToSet(Append(native, e)) = ToSet(native) \cup {e}
      BY <1>0, AppendSet
    <2>. QED BY <1>2, <2>1, <2>2 DEF MarkersMatch
  <1>3. CASE Perform
    <2>. DEFINE e == Head(todo)
    <2>1. /\ Running /\ todo # <<>> /\ Effects(e) /\ (trace' = Append(trace, e) \/ trace' = trace)
      BY <1>3 DEF Perform, Recorded, Missed
    <2>2. e \in CallRecord /\ e.result = "ok"
      BY <1>0, <2>1, HeadKnown
    <2>. HIDE DEF e
    <2>3. Len(MarkersOf(trace)) <= Len(native)
      BY <2>1 DEF MarkersMatch
    <2>4. MarkersOf(Append(trace, e)) = IF e.call \in Markers THEN Append(MarkersOf(trace), e)
                                        ELSE MarkersOf(trace)
      BY <1>0, <2>2, MarkersLonger
    <2>5. Len(Append(MarkersOf(trace), e)) = Len(MarkersOf(trace)) + 1
          /\ Len(Append(native, e)) = Len(native) + 1
      BY <1>0, <1>1, <2>2, AppendProperties
    <2>6. native' = IF e.call \in Markers THEN Append(native, e) ELSE native
      BY <2>1 DEF Effects
    <2>7. Len(MarkersOf(trace')) <= Len(native')
      <3>1. CASE e.call \in Markers
        <4>1. Len(native') = Len(native) + 1
          BY <2>5, <2>6, <3>1
        <4>2. Len(MarkersOf(trace')) \in {Len(MarkersOf(trace)), Len(MarkersOf(trace)) + 1}
          BY <2>1, <2>4, <2>5, <3>1
        <4>. QED BY <1>1, <2>3, <4>1, <4>2
      <3>2. CASE e.call \notin Markers
        <4>1. native' = native /\ MarkersOf(trace') = MarkersOf(trace)
          BY <2>1, <2>4, <2>6, <3>2
        <4>. QED BY <2>3, <4>1
      <3>. QED BY <3>1, <3>2
    <2>. QED BY <1>2, <2>1, <2>2, <2>7 DEF MarkersMatch
  <1>4. CASE Torn
    <2>1. /\ ~Running' /\ (native' = Append(native, Call("torn")) \/ native' = native)
      BY <1>4 DEF Torn, Running
    <2>2. Call("torn") \in CallRecord /\ Call("torn").result = "ok"
      BY CallKinds DEF CallNames
    <2>3. ToSet(Append(native, Call("torn"))) = ToSet(native) \cup {Call("torn")}
      BY <1>0, <2>2, AppendSet
    <2>. QED BY <2>1, <2>2, <2>3 DEF MarkersMatch
  <1>5. CASE Killed
    <2>1. ~Running'
      BY <1>5 DEF Killed, Running
    <2>2. native' = native \/ (todo # <<>> /\ Effects(Head(todo)))
      BY <1>5 DEF Killed, output
    <2>3. CASE native' = native
      BY <2>1, <2>3 DEF MarkersMatch
    <2>4. CASE todo # <<>> /\ Effects(Head(todo))
      <3>1. Head(todo) \in CallRecord /\ Head(todo).result = "ok"
        BY <1>0, <2>4, HeadKnown
      <3>2. \A c \in ToSet(native') : c.result = "ok"
        BY <1>2, <2>4, <3>1
      <3>. QED BY <2>1, <3>2 DEF MarkersMatch
    <2>. QED BY <2>2, <2>3, <2>4
  <1>6. CASE Return
    <2>. DEFINE short == [Enter EXCEPT !.result = "short"]
    <2>1. Enter \in CallRecord /\ Enter.call = "enter"
      BY <1>0, EnterIs
    <2>2. short \in CallRecord /\ short.call = "enter"
      <3>. HIDE DEF Enter
      <3>. QED BY <2>1 DEF CallRecord
    <2>3. /\ Running /\ native' = native
          /\ \/ trace' = trace
             \/ trace' = Append(trace, Enter)
             \/ trace' = Append(trace, short)
      BY <1>6 DEF Return, Recorded, Missed
    <2>. HIDE DEF short
    <2>4. "enter" \notin Markers
      BY DEF Markers
    <2>5. MarkersOf(trace') = MarkersOf(trace)
      BY <1>0, <2>1, <2>2, <2>3, <2>4, MarkersLonger
    <2>. QED BY <2>3, <2>5 DEF MarkersMatch
  <1>7. CASE UNCHANGED ringVars
    BY <1>7 DEF ringVars, MarkersMatch, Running
  <1>8. CASE Dispatcher \/ Take \/ Submit \/ EnterRing \/ Drain \/ Finish \/ DrainHelper
             \/ ExitHelper \/ CompleteOperation
    <2>1. native' = native /\ trace' = trace
      BY <1>8 DEF Dispatcher, SendJob, CloseInput, Take, Submit, EnterRing, Drain, Finish,
                  DrainHelper, ExitHelper, CompleteOperation, output
    <2>2. Running' => Running
      BY <1>8 DEF Dispatcher, SendJob, CloseInput, Take, Gathering, Submit, EnterRing, Drain,
                  Draining, Finish, DrainHelper, ExitHelper, CompleteOperation, Running
    <2>. QED BY <2>1, <2>2 DEF MarkersMatch
  <1>. QED BY <1>3, <1>4, <1>5, <1>6, <1>7, <1>8 DEF RingNext, Program

-----------------------------------------------------------------------------
(* Where a batch of jobs is being prepared. *)
LEMMA PreparedCall ==
    ASSUME RingTypes, BatchKnown, HelperKnown, TodoKnown,
           mode = "shared", Running, at = "submitting"
    PROVE  \/ /\ todo = <<Enter>> /\ InHand = NoJob
           \/ \E k \in DOMAIN batch, m \in 1 .. 4 :
                 /\ todo # <<>> /\ Head(todo) = Block(k, number)[m] /\ batch[k] \in Nat
                 /\ InHand = (IF m = 1 THEN NoJob ELSE batch[k])
                 /\ Made = 4 * (k - 1) + m - 1
  <1>1. /\ Len(batch) \in Nat /\ DOMAIN batch = 1 .. Len(batch) /\ batch # <<>> /\ number \in Nat
    BY LenProperties DEF BatchKnown, RingTypes
  <1>2. Len(todo) \in 1 .. Len(Plan) /\ todo \in Seq(CallRecord) /\ Len(todo) \in Nat
    BY LenProperties DEF TodoKnown, RingTypes
  <1>3. todo # <<>>
    BY <1>1, <1>2
  <1>4. /\ Made \in 0 .. Len(Plan) - 1 /\ Head(todo) = Plan[Made + 1]
        /\ Len(Plan) \in Nat /\ Len(todo) = Len(Plan) - Made
    BY <1>3, HeadIs
  <1>5. /\ Len(Plan) = 4 * Len(batch) + 1 /\ Plan[Len(Plan)] = Enter
        /\ \A k \in DOMAIN batch, m \in 1 .. 4 : Plan[4 * (k - 1) + m] = Block(k, number)[m]
    BY <1>1, PlanIs DEF Plan
  <1>6. CASE Made + 1 = Len(Plan)
    <2>1. Len(todo) = 1 /\ Head(todo) = Enter
      BY <1>4, <1>5, <1>6
    <2>2. todo = <<Enter>>
      BY <1>2, <2>1, HeadTailProperties
    <2>3. Made = 4 * Len(batch)
      BY <1>4, <1>5, <1>6
    <2>4. Made % 4 = 0
      BY <1>1, <2>3
    <2>. QED BY <2>2, <2>4 DEF InHand
  <1>7. CASE Made + 1 # Len(Plan)
    <2>1. Made + 1 \in 1 .. 4 * Len(batch) /\ Made \in Nat
      BY <1>1, <1>4, <1>5, <1>7, SMTT(20)
    <2>2. PICK k \in 1 .. Len(batch), m \in 1 .. 4 : Made + 1 = 4 * (k - 1) + m
      BY <1>1, <2>1, PositionIs, Zenon
    <2>3. Head(todo) = Block(k, number)[m]
      <3>1. Plan[4 * (k - 1) + m] = Block(k, number)[m]
        BY <1>1, <1>5
      <3>. QED BY <1>4, <2>2, <3>1
    <2>4. batch[k] \in Nat
      BY <1>1, IdsOfBatch
    <2>5. Made = 4 * (k - 1) + m - 1
      BY <2>1, <2>2
    <2>6. /\ m = 1 => Made % 4 = 0
          /\ m # 1 => Made % 4 # 0 /\ (Made \div 4) + 1 = k
      <3>1. \A q \in Nat, x \in 0 .. 3 : (4 * q + x) % 4 = x /\ (4 * q + x) \div 4 = q
        OBVIOUS
      <3>2. Made = 4 * (k - 1) + (m - 1) /\ k - 1 \in Nat /\ m - 1 \in 0 .. 3
        BY <1>1, <2>1, <2>2
      <3>3. Made % 4 = m - 1 /\ Made \div 4 = k - 1
        BY <3>1, <3>2
      <3>. QED BY <3>2, <3>3
    <2>7. InHand = (IF m = 1 THEN NoJob ELSE batch[k])
      BY <2>6 DEF InHand
    <2>. QED BY <1>1, <1>3, <2>3, <2>4, <2>5, <2>7
  <1>. QED BY <1>6, <1>7

(* The rows of the next call are of the job in hand. *)
LEMMA NextRows ==
    ASSUME KernelInv, mode = "shared", todo # <<>>
    PROVE  \A r \in ToSet(Head(todo).rows) :
              r.kind = "sqe" => \E m \in {1, 2} : r.id = IdOf(InHand, m)
  <1>0. RingTypes /\ BatchKnown /\ HelperKnown /\ TodoKnown /\ CompletionsKnown
    BY DEF KernelInv
  <1>. SUFFICES ASSUME NEW r \in ToSet(Head(todo).rows), r.kind = "sqe"
                PROVE  \E m \in {1, 2} : r.id = IdOf(InHand, m)
    OBVIOUS
  <1>1. Running
    BY <1>0, HeadIs
  <1>2. CASE at = "submitting"
    <2>1. todo # <<Enter>>
      <3>. SUFFICES ASSUME todo = <<Enter>> PROVE FALSE
        OBVIOUS
      <3>1. Enter.rows = <<>>
        BY <1>0, EnterIs
      <3>2. Head(todo) = Enter
        OBVIOUS
      <3>. QED BY <3>1, <3>2, NoCalls
    <2>2. PICK k \in DOMAIN batch, m \in 1 .. 4 :
             /\ Head(todo) = Block(k, number)[m] /\ batch[k] \in Nat
             /\ InHand = (IF m = 1 THEN NoJob ELSE batch[k])
      BY <1>0, <1>1, <1>2, <2>1, PreparedCall
    <2>3. number \in Nat
      BY <1>0 DEF RingTypes
    <2>4. \A i \in {1, 2} : /\ SqeRows(k, number)[i].id = IdOf(batch[k], i)
                            /\ SqeRows(k, number)[i] \in RowRecord
      BY <1>0, <2>3, SubmissionRow
    <2>5. CASE m = 1 \/ m = 4
      <3>1. Head(todo).rows = <<>>
        <4>1. /\ MarkerOf("IPC_ENTER", batch[k]).rows = <<>>
              /\ MarkerOf("IPC_LEAVE", batch[k]).rows = <<>>
          BY <2>2, CallKinds
        <4>. QED BY <2>2, <2>5, <4>1 DEF Block
      <3>. QED BY <3>1, NoCalls
    <2>6. ASSUME NEW i \in {1, 2}, m = i + 1
          PROVE  \E l \in {1, 2} : r.id = IdOf(InHand, l)
      <3>. DEFINE row == SqeRows(k, number)[i]
      <3>1. Head(todo) = WriteOf(<<row>>)
        BY <2>2, <2>6 DEF Block
      <3>2. row \in RowRecord /\ row.id = IdOf(batch[k], i)
        BY <2>4
      <3>. HIDE DEF row
      <3>3. <<row>> \in Seq(RowRecord)
        BY <3>2
      <3>4. WriteOf(<<row>>).rows = <<row>>
        BY <3>3, CallKinds
      <3>5. r = row
        BY <3>1, <3>4, OneRow
      <3>6. InHand = batch[k]
        BY <2>2, <2>6
      <3>. QED BY <3>2, <3>5, <3>6
    <2>7. m = 1 \/ m = 4 \/ m = 1 + 1 \/ m = 2 + 1
      OBVIOUS
    <2>. QED BY <2>5, <2>6, <2>7
  <1>3. CASE at = "gathering"
    <2>1. Head(todo) = Opens[1] \/ Head(todo) = Opens[2]
      BY <1>0, <1>3, HeadIs
    <2>2. Opens[1].rows = <<>> /\ Opens[2].rows = <<>>
      <3>1. /\ Call("open") \in CallRecord /\ Call("open").rows = <<>>
            /\ Call("setup") \in CallRecord /\ Call("setup").rows = <<>>
        BY CallKinds DEF CallNames
      <3>2. /\ [Call("open") EXCEPT !.fd = FileFd, !.file = "slots"].rows = <<>>
            /\ [Call("setup") EXCEPT !.fd = RingFd].rows = <<>>
        BY <3>1 DEF CallRecord
      <3>. QED BY <3>2 DEF Opens
    <2>. QED BY <2>1, <2>2, NoCalls
  <1>4. CASE at = "draining"
    <2>. DEFINE row == seen[Len(seen)]
    <2>1. seen # <<>> /\ Head(todo) = WriteOf(<<row>>)
      BY <1>0, <1>4, HeadIs
    <2>2. Len(seen) \in DOMAIN seen /\ row \in RowRecord
      BY <1>0, <2>1, LastOf, LenProperties DEF RingTypes
    <2>3. row.kind = "cqe"
      BY <1>0, <2>2 DEF CompletionsKnown
    <2>. HIDE DEF row
    <2>4. <<row>> \in Seq(RowRecord)
      BY <2>2
    <2>5. WriteOf(<<row>>).rows = <<row>>
      BY <2>4, CallKinds
    <2>. QED BY <2>1, <2>3, <2>5, OneRow
  <1>5. at \notin {"failed", "succeeded"}
    BY <1>0 DEF HelperKnown
  <1>. QED BY <1>0, <1>2, <1>3, <1>4, <1>5, HeadIs

LEMMA OwnedLonger ==
    ASSUME NEW tr \in Seq(CallRecord), NEW e \in CallRecord, OwnedRows(tr),
           \A r \in ToSet(e.rows) :
              r.kind = "sqe" => \E m \in {1, 2} : r.id = IdOf(JobAt(tr, Len(tr) + 1), m)
    PROVE  OwnedRows(Append(tr, e))
  <1>. DEFINE n == Len(tr)
              new == Append(tr, e)
  <1>1. /\ n \in Nat /\ DOMAIN tr = 1 .. n /\ DOMAIN new = 1 .. n + 1
        /\ new[n + 1] = e /\ \A i \in 1 .. n : new[i] = tr[i]
    BY TraceLonger
  <1>2. \A i \in 1 .. n + 1 : JobAt(new, i) = JobAt(tr, i)
    BY JobLonger
  <1>. HIDE DEF n, new
  <1>3. \A i \in 1 .. n + 1 : i \in 1 .. n \/ i = n + 1
    BY <1>1
  <1>4. n + 1 \in 1 .. n + 1 /\ \A i \in 1 .. n : i \in 1 .. n + 1
    BY <1>1
  <1>5. ASSUME NEW i \in DOMAIN new, NEW r \in ToSet(new[i].rows), r.kind = "sqe"
        PROVE  \E m \in {1, 2} : r.id = IdOf(JobAt(new, i), m)
    <2>1. CASE i \in 1 .. n
      <3>1. r \in ToSet(tr[i].rows) /\ i \in DOMAIN tr
        BY <1>1, <1>5, <2>1
      <3>2. \E m \in {1, 2} : r.id = IdOf(JobAt(tr, i), m)
        BY <1>5, <3>1 DEF OwnedRows
      <3>. QED BY <1>2, <1>4, <2>1, <3>2
    <2>2. CASE i = n + 1
      <3>1. \E m \in {1, 2} : r.id = IdOf(JobAt(tr, n + 1), m)
        BY <1>1, <1>5, <2>2 DEF n
      <3>. QED BY <1>2, <1>4, <2>2, <3>1
    <2>. QED BY <1>1, <1>3, <2>1, <2>2
  <1>. QED BY <1>5 DEF OwnedRows, new

LEMMA SameAppend ==
    ASSUME NEW S, NEW a \in Seq(S), NEW b \in Seq(S), NEW x \in S, Append(a, x) = Append(b, x)
    PROVE  a = b
  <1>1. Len(a) = Len(b)
    <2>1. Len(Append(a, x)) = Len(a) + 1 /\ Len(Append(b, x)) = Len(b) + 1
      BY AppendProperties
    <2>2. Len(a) \in Nat /\ Len(b) \in Nat
      BY LenProperties
    <2>. QED BY <2>1, <2>2
  <1>2. \A i \in 1 .. Len(a) : a[i] = Append(a, x)[i] /\ b[i] = Append(b, x)[i]
    BY <1>1, AppendProperties
  <1>. QED BY <1>1, <1>2, SeqEqual

(* The job in hand after a call. *)
LEMMA HandNext ==
    ASSUME KernelInv, mode = "shared", Perform
    PROVE  InHand' = IF Head(todo).call \notin Markers THEN InHand
                     ELSE IF Head(todo).call = "IPC_LEAVE" THEN NoJob ELSE Head(todo).job
  <1>0. RingTypes /\ BatchKnown /\ HelperKnown /\ TodoKnown /\ CompletionsKnown
    BY DEF KernelInv
  <1>1. /\ Running /\ todo # <<>> /\ Head(todo).call # "enter" /\ todo' = Tail(todo)
        /\ at' = at /\ batch' = batch
        /\ UNCHANGED <<mode, replaces, taken, batch, number>>
    BY DEF Perform, started
  <1>2. CASE at = "submitting"
    <2>1. todo # <<Enter>>
      <3>. SUFFICES ASSUME todo = <<Enter>> PROVE FALSE
        OBVIOUS
      <3>1. Enter.call = "enter"
        BY <1>0, EnterIs
      <3>2. Head(todo) = Enter
        OBVIOUS
      <3>. QED BY <1>1, <3>1, <3>2
    <2>2. PICK k \in DOMAIN batch, m \in 1 .. 4 :
             /\ Head(todo) = Block(k, number)[m] /\ batch[k] \in Nat
             /\ InHand = (IF m = 1 THEN NoJob ELSE batch[k])
             /\ Made = 4 * (k - 1) + m - 1
      BY <1>0, <1>1, <1>2, <2>1, PreparedCall
    <2>3. Made' = Made + 1
      <3>1. Plan' = Plan
        BY <1>1, PlanSame
      <3>2. /\ Len(Tail(todo)) = Len(todo) - 1 /\ Len(Plan) \in Nat
            /\ Len(todo) = Len(Plan) - Made /\ Made \in 0 .. Len(Plan) - 1
        BY <1>0, <1>1, <1>2, HeadIs
      <3>. QED BY <1>1, <3>1, <3>2 DEF Made
    <2>4. k \in Nat /\ k >= 1
      BY <1>0, LenProperties DEF BatchKnown
    <2>5. \A q \in Nat, x \in 0 .. 3 : (4 * q + x) % 4 = x /\ (4 * q + x) \div 4 = q
      OBVIOUS
    <2>6. CASE m = 4
      <3>1. Made' = 4 * k + 0 /\ 0 \in 0 .. 3
        BY <2>2, <2>3, <2>4, <2>6
      <3>2. Made' % 4 = 0
        BY <2>4, <2>5, <3>1
      <3>3. InHand' = NoJob
        BY <3>2 DEF InHand
      <3>4. Head(todo).call = "IPC_LEAVE"
        <4>1. MarkerOf("IPC_LEAVE", batch[k]).call = "IPC_LEAVE"
          BY <2>2, CallKinds
        <4>. QED BY <2>2, <2>6, <4>1 DEF Block
      <3>. QED BY <3>3, <3>4 DEF Markers
    <2>7. CASE m # 4
      <3>1. Made' = 4 * (k - 1) + m /\ m \in 1 .. 3 /\ k - 1 \in Nat
        BY <2>2, <2>3, <2>4, <2>7
      <3>2. Made' % 4 = m /\ Made' \div 4 = k - 1
        BY <2>5, <3>1
      <3>3. InHand' = batch[k]
        <4>1. Made' % 4 # 0 /\ (Made' \div 4) + 1 = k
          BY <2>4, <3>1, <3>2
        <4>. QED BY <1>1, <1>2, <4>1 DEF InHand
      <3>4. CASE m = 1
        <4>1. /\ MarkerOf("IPC_ENTER", batch[k]).call = "IPC_ENTER"
              /\ MarkerOf("IPC_ENTER", batch[k]).job = batch[k]
          BY <2>2, CallKinds
        <4>. QED BY <2>2, <3>3, <3>4, <4>1 DEF Block, Markers
      <3>5. CASE m = 2 \/ m = 3
        <4>1. number \in Nat
          BY <1>0 DEF RingTypes
        <4>2. /\ SqeRows(k, number)[1] \in RowRecord /\ SqeRows(k, number)[2] \in RowRecord
          BY <1>0, <4>1, SubmissionRow
        <4>3. /\ <<SqeRows(k, number)[1]>> \in Seq(RowRecord)
              /\ <<SqeRows(k, number)[2]>> \in Seq(RowRecord)
          BY <4>2
        <4>4. /\ WriteOf(<<SqeRows(k, number)[1]>>).call = "write"
              /\ WriteOf(<<SqeRows(k, number)[2]>>).call = "write"
          BY <4>3, CallKinds
        <4>5. Head(todo).call = "write"
          BY <2>2, <3>5, <4>4 DEF Block
        <4>. QED BY <2>2, <3>3, <3>5, <4>5 DEF Markers
      <3>6. m = 1 \/ m = 2 \/ m = 3
        BY <3>1
      <3>. QED BY <3>4, <3>5, <3>6
    <2>. QED BY <2>6, <2>7
  <1>3. CASE at # "submitting"
    <2>1. InHand = NoJob /\ InHand' = NoJob
      BY <1>1, <1>3 DEF InHand
    <2>2. Head(todo).call \notin Markers
      <3>1. CASE at = "gathering"
        <4>1. Head(todo) = Opens[1] \/ Head(todo) = Opens[2]
          BY <1>0, <1>1, <3>1, HeadIs
        <4>2. Opens[1].call \in {"open", "setup"} /\ Opens[2].call \in {"open", "setup"}
          BY DEF Opens, Call
        <4>. QED BY <4>1, <4>2 DEF Markers
      <3>2. CASE at = "draining"
        <4>1. seen # <<>> /\ Head(todo) = WriteOf(<<seen[Len(seen)]>>)
          BY <1>0, <1>1, <3>2, HeadIs
        <4>2. <<seen[Len(seen)]>> \in Seq(RowRecord)
          BY <1>0, <4>1, LastOf DEF RingTypes
        <4>. DEFINE rows == <<seen[Len(seen)]>>
        <4>. HIDE DEF rows
        <4>3. WriteOf(rows).call = "write"
          BY <4>2, CallKinds DEF rows
        <4>. QED BY <4>1, <4>3 DEF Markers, rows
      <3>. QED BY <1>0, <1>1, <1>3, <3>1, <3>2, HeadIs DEF HelperKnown
    <2>. QED BY <2>1, <2>2
  <1>. QED BY <1>2, <1>3

LEMMA SameHand ==
    ASSUME UNCHANGED <<mode, replaces, taken, at, todo, batch, number>>
    PROVE  InHand' = InHand
  <1>1. Plan' = Plan
    BY PlanSame
  <1>2. Made' = Made
    BY <1>1 DEF Made
  <1>. QED BY <1>2 DEF InHand

LEMMA EnterHand ==
    ASSUME RingTypes, BatchKnown, mode = "shared", at = "submitting", todo = <<Enter>>
    PROVE  InHand = NoJob
  <1>1. batch # <<>> /\ number \in Nat /\ Len(batch) \in Nat
    BY LenProperties DEF BatchKnown, RingTypes
  <1>2. Len(Plan) = 4 * Len(batch) + 1
    BY <1>1, PlanIs DEF Plan
  <1>3. Len(todo) = 1
    OBVIOUS
  <1>4. Made = 4 * Len(batch)
    BY <1>1, <1>2, <1>3 DEF Made
  <1>5. Made % 4 = 0
    BY <1>1, <1>4
  <1>. QED BY <1>5 DEF InHand

(* The row of a submission is between the markers of its job, if the markers  *)
(* of the trace are those of the log: while the program runs, one that is     *)
(* missed is missing for good.                                                *)
LEMMA JobsStep ==
    ASSUME KernelInv, CallsKnown, MarkersMatch, MarkersMatch', JobsRight,
           RingTypes', [RingNext]_ringVars
    PROVE  JobsRight'
  <1>0. /\ RingTypes /\ BatchKnown /\ HelperKnown /\ TodoKnown /\ OperationsKnown
        /\ trace \in Seq(CallRecord) /\ native \in Seq(CallRecord)
    BY DEF KernelInv, RingTypes
  <1>. SUFFICES ASSUME mode' = "shared", WholeMarkers' PROVE JobsRight'
    BY DEF JobsRight
  <1>1. mode = "shared"
    BY <1>0, NothingForgotten DEF ringVars
  <1>2. MarkersOf(trace') = native'
    BY DEF WholeMarkers
  <1>3. MarkersOf(trace) \in Seq(CallRecord)
    <2>1. Call("enter") \in CallRecord
      BY CallKinds DEF CallNames
    <2>. QED BY <1>0, <2>1, MarkersLonger
  <1>4. ASSUME trace' = trace, native' = native, Running' => Running /\ InHand' = InHand
        PROVE  JobsRight'
    <2>1. WholeMarkers
      BY <1>2, <1>4 DEF WholeMarkers
    <2>. QED BY <1>1, <1>4, <2>1 DEF JobsRight
  (* A call that is no marker. *)
  <1>5. ASSUME NEW e \in CallRecord, e.call \notin Markers, native' = native,
               trace' = Append(trace, e), Running,
               \A r \in ToSet(e.rows) :
                  r.kind = "sqe" => \E m \in {1, 2} : r.id = IdOf(InHand, m),
               Running' => InHand' = InHand
        PROVE  JobsRight'
    <2>1. WholeMarkers
      BY <1>0, <1>2, <1>5, MarkersLonger DEF WholeMarkers
    <2>2. OwnedRows(trace) /\ JobAt(trace, Len(trace) + 1) = InHand
      BY <1>1, <1>5, <2>1 DEF JobsRight
    <2>3. OwnedRows(trace')
      BY <1>0, <1>5, <2>2, OwnedLonger
    <2>4. Len(trace') = Len(trace) + 1 /\ Len(trace) \in Nat
      BY <1>0, <1>5, TraceLonger
    <2>5. JobAt(trace', Len(trace) + 2) = InHand
      BY <1>0, <1>5, <2>2, JobLonger
    <2>6. Len(trace') + 1 = Len(trace) + 2
      BY <2>4
    <2>. QED BY <1>5, <2>3, <2>5, <2>6 DEF JobsRight
  (* A marker that failed is in no log. *)
  <1>6. ASSUME NEW e \in CallRecord, e.call \in Markers, e.result # "ok",
               trace' = Append(trace, e)
        PROVE  FALSE
    <2>1. native' = Append(MarkersOf(trace), e)
      BY <1>0, <1>2, <1>6, MarkersLonger
    <2>2. e \in ToSet(native')
      BY <1>3, <2>1, AppendSet
    <2>. QED BY <1>6, <2>2 DEF MarkersMatch
  <1>7. CASE Perform
    <2>. DEFINE e == Head(todo)
    <2>1. /\ Running /\ todo # <<>> /\ Effects(e) /\ exit' = exit
          /\ trace' = Append(trace, e) \/ trace' = trace
      BY <1>7 DEF Perform, Recorded, Missed
    <2>2. e \in CallRecord /\ e.result = "ok"
      BY <1>0, <2>1, HeadKnown
    <2>3. \A r \in ToSet(e.rows) :
             r.kind = "sqe" => \E m \in {1, 2} : r.id = IdOf(InHand, m)
      BY <1>1, <2>1, NextRows
    <2>4. InHand' = IF e.call \notin Markers THEN InHand
                    ELSE IF e.call = "IPC_LEAVE" THEN NoJob ELSE e.job
      BY <1>1, <1>7, HandNext
    <2>. HIDE DEF e
    <2>5. native' = IF e.call \in Markers THEN Append(native, e) ELSE native
      BY <2>1 DEF Effects
    <2>6. CASE e.call \notin Markers
      <3>1. native' = native /\ InHand' = InHand
        BY <2>4, <2>5, <2>6
      <3>. QED BY <1>4, <1>5, <2>1, <2>2, <2>3, <2>6, <3>1
    <2>7. CASE e.call \in Markers /\ trace' = trace
      <3>1. MarkersOf(trace) = Append(native, e)
        BY <1>2, <2>5, <2>7
      <3>2. Len(MarkersOf(trace)) = Len(native) + 1 /\ Len(native) \in Nat
        BY <1>0, <2>2, <3>1, AppendProperties, LenProperties
      <3>3. Len(MarkersOf(trace)) <= Len(native)
        BY <2>1 DEF MarkersMatch
      <3>. QED BY <3>2, <3>3
    <2>8. CASE e.call \in Markers /\ trace' = Append(trace, e)
      <3>1. Append(MarkersOf(trace), e) = Append(native, e)
        BY <1>0, <1>2, <2>2, <2>5, <2>8, MarkersLonger
      <3>2. WholeMarkers
        BY <1>0, <1>3, <2>2, <3>1, SameAppend DEF WholeMarkers
      <3>3. OwnedRows(trace) /\ JobAt(trace, Len(trace) + 1) = InHand
        BY <1>1, <2>1, <3>2 DEF JobsRight
      <3>4. OwnedRows(trace')
        BY <1>0, <2>2, <2>3, <2>8, <3>3, OwnedLonger
      <3>5. Len(trace') = Len(trace) + 1 /\ Len(trace) \in Nat
        BY <1>0, <2>2, <2>8, TraceLonger
      <3>6. JobAt(trace', Len(trace) + 2) = InHand'
        BY <1>0, <2>2, <2>4, <2>8, JobLonger
      <3>7. Len(trace') + 1 = Len(trace) + 2
        BY <3>5
      <3>. QED BY <3>4, <3>6, <3>7 DEF JobsRight
    <2>. QED BY <2>1, <2>6, <2>7, <2>8
  <1>8. CASE Torn
    <2>. DEFINE e == Head(todo)
                short == [e EXCEPT !.result = "short"]
    <2>1. /\ Running /\ todo # <<>> /\ e.call \in Markers \cup {"write"}
          /\ ~Running' /\ trace' = Append(trace, short)
          /\ native' = IF e.call \in Markers THEN Append(native, Call("torn")) ELSE native
      BY <1>8 DEF Torn, Running
    <2>2. e \in CallRecord
      BY <1>0, <2>1, HeadKnown
    <2>3. \A r \in ToSet(e.rows) :
             r.kind = "sqe" => \E m \in {1, 2} : r.id = IdOf(InHand, m)
      BY <1>1, <2>1, NextRows
    <2>. HIDE DEF e
    <2>4. short \in CallRecord /\ short.call = e.call /\ short.rows = e.rows
          /\ short.result = "short"
      BY <2>2 DEF CallRecord
    <2>. HIDE DEF short
    <2>5. e.call \notin Markers
      BY <1>6, <2>1, <2>4
    <2>. QED BY <1>5, <2>1, <2>3, <2>4, <2>5
  <1>9. CASE Killed
    <2>. DEFINE e == Head(todo)
                unknown == [e EXCEPT !.result = "unknown"]
                enter == [Call("enter") EXCEPT !.result = "unknown"]
    <2>1. /\ Running /\ ~Running'
          /\ \/ trace' = trace /\ native' = native
             \/ /\ todo # <<>> /\ trace' = Append(trace, unknown)
                /\ Effects(e) \/ native' = native
             \/ trace' = Append(trace, enter) /\ native' = native
      BY <1>9 DEF Killed, Running, output
    <2>2. CASE trace' = trace /\ native' = native
      BY <1>4, <2>1, <2>2
    <2>3. CASE /\ todo # <<>> /\ trace' = Append(trace, unknown)
               /\ Effects(e) \/ native' = native
      <3>1. e \in CallRecord
        BY <1>0, <2>3, HeadKnown
      <3>2. \A r \in ToSet(e.rows) :
               r.kind = "sqe" => \E m \in {1, 2} : r.id = IdOf(InHand, m)
        BY <1>1, <2>3, NextRows
      <3>. HIDE DEF e
      <3>3. unknown \in CallRecord /\ unknown.call = e.call /\ unknown.rows = e.rows
            /\ unknown.result = "unknown"
        BY <3>1 DEF CallRecord
      <3>. HIDE DEF unknown
      <3>4. e.call \notin Markers
        BY <1>6, <2>3, <3>3
      <3>5. native' = native
        BY <2>3, <3>4 DEF Effects
      <3>. QED BY <1>5, <2>1, <2>3, <3>2, <3>3, <3>4, <3>5
    <2>4. CASE trace' = Append(trace, enter) /\ native' = native
      <3>1. /\ Call("enter") \in CallRecord /\ Call("enter").rows = <<>>
            /\ Call("enter").call = "enter"
        BY CallKinds DEF CallNames
      <3>2. enter \in CallRecord /\ enter.rows = <<>> /\ enter.call \notin Markers
        BY <3>1 DEF CallRecord, Markers
      <3>. HIDE DEF enter
      <3>3. ToSet(enter.rows) = {}
        BY <3>2, NoCalls
      <3>. QED BY <1>5, <2>1, <2>4, <3>2, <3>3
    <2>. QED BY <2>1, <2>2, <2>3, <2>4
  <1>10. CASE Return
    <2>. DEFINE short == [Enter EXCEPT !.result = "short"]
    <2>1. /\ Enter \in CallRecord /\ Enter.call = "enter" /\ Enter.rows = <<>>
      BY <1>0, EnterIs
    <2>2. short \in CallRecord /\ short.call = "enter" /\ short.rows = <<>>
      <3>. HIDE DEF Enter
      <3>. QED BY <2>1 DEF CallRecord
    <2>3. /\ Running /\ native' = native /\ at # "submitting" /\ at' # "submitting"
          /\ \/ trace' = trace
             \/ trace' = Append(trace, Enter)
             \/ trace' = Append(trace, short)
      BY <1>10 DEF Return, Recorded, Missed
    <2>. HIDE DEF short
    <2>4. "enter" \notin Markers
      BY DEF Markers
    <2>5. InHand' = InHand
      BY <2>3 DEF InHand
    <2>6. ToSet(Enter.rows) = {} /\ ToSet(short.rows) = {}
      BY <2>1, <2>2, NoCalls
    <2>. HIDE DEF Enter
    <2>. QED BY <1>4, <1>5, <2>1, <2>2, <2>3, <2>4, <2>5, <2>6
  <1>11. CASE UNCHANGED ringVars
    <2>1. InHand' = InHand /\ trace' = trace /\ native' = native /\ (Running' => Running)
      BY <1>11, SameHand DEF ringVars, Running
    <2>. QED BY <1>4, <2>1
  <1>12. CASE Dispatcher \/ CompleteOperation
    <2>1. UNCHANGED <<mode, replaces, taken, at, todo, batch, number>>
          /\ trace' = trace /\ native' = native /\ exit' = exit
      BY <1>12 DEF Dispatcher, SendJob, CloseInput, CompleteOperation, started, output
    <2>. QED BY <1>4, <2>1, SameHand DEF Running
  <1>13. CASE Submit
    <2>1. /\ trace' = trace /\ native' = native /\ Running /\ at = "gathering"
          /\ \/ at' = at
             \/ batch # <<>> /\ number' = number + 1 /\ todo' = PlanOf(number + 1)
          /\ UNCHANGED <<mode, replaces, taken, batch>>
      BY <1>13 DEF Submit, Gathering, PlanOf, output, started
    <2>2. InHand = NoJob
      BY <2>1 DEF InHand
    <2>3. InHand' = NoJob
      <3>1. CASE at' = at
        BY <2>1, <3>1 DEF InHand
      <3>2. CASE number' = number + 1 /\ todo' = PlanOf(number + 1)
        <4>1. Plan' = todo'
          BY <2>1, <3>2 DEF Plan, PlanOf, Prepare, PrepareHelper, SqeRows, Ids, Enter
        <4>2. Len(todo') \in Nat
          BY LenProperties DEF RingTypes
        <4>3. Made' = 0
          BY <4>1, <4>2 DEF Made
        <4>4. Made' % 4 = 0
          BY <4>3
        <4>. QED BY <4>4 DEF InHand
      <3>. QED BY <2>1, <3>1, <3>2
    <2>. QED BY <1>4, <2>1, <2>2, <2>3
  <1>14. CASE EnterRing
    <2>1. /\ trace' = trace /\ native' = native /\ Running /\ at = "submitting"
          /\ at' # "submitting" /\ todo = <<Enter>>
      BY <1>14 DEF EnterRing, output
    <2>2. InHand = NoJob
      BY <1>0, <1>1, <2>1, EnterHand
    <2>3. InHand' = NoJob
      BY <2>1 DEF InHand
    <2>. QED BY <1>4, <2>1, <2>2, <2>3
  <1>15. CASE Take \/ Drain \/ Finish \/ DrainHelper \/ ExitHelper
    <2>1. /\ trace' = trace /\ native' = native /\ Running
          /\ at # "submitting" /\ at' # "submitting"
      BY <1>15 DEF Take, Gathering, Drain, Finish, DrainHelper, Draining, Flush, ExitHelper,
                   output
    <2>2. InHand = NoJob /\ InHand' = NoJob
      BY <2>1 DEF InHand
    <2>. QED BY <1>4, <2>1, <2>2
  <1>. QED BY <1>7, <1>8, <1>9, <1>10, <1>11, <1>12, <1>13, <1>14, <1>15 DEF RingNext, Program

-----------------------------------------------------------------------------
(* The calls on the file: it is opened once, or replaced by a helper. *)
LEMMA PlanFiles ==
    ASSUME RingTypes, BatchKnown, batch # <<>>, NEW n \in Nat
    PROVE  \A p \in 1 .. Len(PlanOf(n)) :
              /\ PlanOf(n)[p].call = "open" => p # 1 /\ PlanOf(n)[p - 1].call = "close"
              /\ PlanOf(n)[p].call = "close" => /\ p + 1 \in 1 .. Len(PlanOf(n))
                                                /\ PlanOf(n)[p + 1].call = "open"
              /\ PlanOf(n)[p].call \in {"open", "close"} => mode = "helper"
  <1>. DEFINE plan == PlanOf(n)
  <1>0. /\ Len(batch) \in Nat /\ Len(batch) # 0 /\ DOMAIN batch = 1 .. Len(batch)
        /\ mode \in {"shared", "helper"}
    BY LenProperties, EmptySeq DEF BatchKnown, RingTypes
  <1>1. /\ plan[Len(plan)] = Enter /\ Len(plan) \in 1 .. Len(plan)
        /\ mode = "shared" => /\ Len(plan) = 4 * Len(batch) + 1
                              /\ \A k \in DOMAIN batch, m \in 1 .. 4 :
                                    plan[4 * (k - 1) + m] = Block(k, n)[m]
        /\ mode = "helper" =>
             /\ Len(plan) = IF replaces THEN 4 ELSE 2
             /\ plan[1] = WriteOf(SqeRows(1, 1))
             /\ replaces => /\ plan[2] = [Call("close") EXCEPT !.fd = FileFd]
                            /\ plan[3] = [Call("open") EXCEPT !.fd = FileFd, !.file = "replacement"]
    BY PlanIs
  <1>2. Enter.call = "enter"
    BY EnterIs
  <1>. HIDE DEF plan
  <1>3. CASE mode = "shared"
    <2>1. ASSUME NEW k \in DOMAIN batch, NEW m \in 1 .. 4
          PROVE  Block(k, n)[m].call \notin {"open", "close"}
      <3>1. batch[k] \in Nat
        BY IdsOfBatch
      <3>2. /\ MarkerOf("IPC_ENTER", batch[k]).call = "IPC_ENTER"
            /\ MarkerOf("IPC_LEAVE", batch[k]).call = "IPC_LEAVE"
        BY <3>1, CallKinds
      <3>3. /\ SqeRows(k, n)[1] \in RowRecord /\ SqeRows(k, n)[2] \in RowRecord
        BY SubmissionRow
      <3>4. /\ <<SqeRows(k, n)[1]>> \in Seq(RowRecord)
            /\ <<SqeRows(k, n)[2]>> \in Seq(RowRecord)
        BY <3>3
      <3>5. /\ WriteOf(<<SqeRows(k, n)[1]>>).call = "write"
            /\ WriteOf(<<SqeRows(k, n)[2]>>).call = "write"
        BY <3>4, CallKinds
      <3>6. m = 1 \/ m = 2 \/ m = 3 \/ m = 4
        OBVIOUS
      <3>. QED BY <3>2, <3>5, <3>6 DEF Block
    <2>2. ASSUME NEW p \in 1 .. Len(plan) PROVE plan[p].call \notin {"open", "close"}
      <3>1. p = Len(plan) \/ p \in 1 .. 4 * Len(batch)
        BY <1>0, <1>1, <1>3
      <3>2. ASSUME p \in 1 .. 4 * Len(batch)
            PROVE  \E k \in DOMAIN batch, m \in 1 .. 4 : plan[p] = Block(k, n)[m]
        <4>1. PICK k \in 1 .. Len(batch), m \in 1 .. 4 : p = 4 * (k - 1) + m
          BY <1>0, <3>2, PositionIs, Zenon
        <4>2. k \in DOMAIN batch /\ plan[p] = plan[4 * (k - 1) + m]
          BY <1>0, <4>1
        <4>. QED BY <1>1, <1>3, <4>2, SMTT(20)
      <3>. QED BY <1>1, <1>2, <2>1, <3>1, <3>2
    <2>. QED BY <2>2 DEF plan
  <1>4. CASE mode = "helper"
    <2>. DEFINE write == WriteOf(SqeRows(1, 1))
                close == [Call("close") EXCEPT !.fd = FileFd]
                open == [Call("open") EXCEPT !.fd = FileFd, !.file = "replacement"]
    <2>1. write.call = "write" /\ close.call = "close" /\ open.call = "open"
      BY HelperPlan
    <2>. HIDE DEF write, close, open
    <2>2. /\ plan[1] = write /\ Len(plan) = IF replaces THEN 4 ELSE 2
          /\ replaces => plan[2] = close /\ plan[3] = open
      BY <1>1, <1>4 DEF write, close, open
    <2>3. CASE replaces
      <3>1. /\ plan[1].call = "write" /\ plan[2].call = "close" /\ plan[3].call = "open"
            /\ plan[4].call = "enter" /\ Len(plan) = 4
        BY <1>1, <1>2, <2>1, <2>2, <2>3
      <3>2. \A p \in 1 .. Len(plan) :
               /\ plan[p].call = "open" => p # 1 /\ plan[p - 1].call = "close"
               /\ plan[p].call = "close" => p + 1 \in 1 .. Len(plan) /\ plan[p + 1].call = "open"
        <4>1. ASSUME NEW p \in 1 .. 4
              PROVE  /\ plan[p].call = "open" => p # 1 /\ plan[p - 1].call = "close"
                     /\ plan[p].call = "close" => p + 1 \in 1 .. 4 /\ plan[p + 1].call = "open"
          <5>1. p = 1 \/ p = 2 \/ p = 3 \/ p = 4
            OBVIOUS
          <5>. QED BY <3>1, <5>1
        <4>. QED BY <3>1, <4>1
      <3>. QED BY <1>4, <3>2 DEF plan
    <2>4. CASE ~replaces
      <3>1. plan[1].call = "write" /\ plan[2].call = "enter" /\ Len(plan) = 2
        BY <1>1, <1>2, <2>1, <2>2, <2>4
      <3>2. \A p \in 1 .. 2 : p = 1 \/ p = 2
        OBVIOUS
      <3>3. \A p \in 1 .. Len(plan) : plan[p].call \notin {"open", "close"}
        BY <3>1, <3>2
      <3>. QED BY <3>3 DEF plan
    <2>. QED BY <2>3, <2>4
  <1>. QED BY <1>0, <1>3, <1>4

(* What precedes the opening of a file, and what follows its closing. *)
LEMMA FileCalls ==
    ASSUME KernelInv, todo # <<>>
    PROVE  /\ Tail(todo) # <<>> /\ Head(Tail(todo)).call = "open" =>
                \/ todo = Opens /\ at = "gathering" /\ Head(todo).call = "setup"
                \/ Head(todo).call = "close"
           /\ Head(todo).call = "close" => Tail(todo) # <<>> /\ Head(Tail(todo)).call = "open"
           /\ Head(todo).call \in {"open", "close"} =>
                \/ at = "gathering" /\ number = 0
                \/ at = "submitting" /\ mode = "helper"
  <1>0. RingTypes /\ BatchKnown /\ HelperKnown /\ TodoKnown /\ CompletionsKnown
    BY DEF KernelInv
  <1>1. CASE at = "gathering"
    <2>1. PICK x, y : Opens = <<x, y>> /\ x.call \in {"open", "setup"} /\ y.call \in {"open", "setup"}
                      /\ (y.call = "open" => x.call = "setup")
      <3>1. /\ Call("open").call = "open" /\ Call("setup").call = "setup"
            /\ Call("open") \in CallRecord /\ Call("setup") \in CallRecord
        BY CallKinds DEF CallNames
      <3>2. /\ [Call("open") EXCEPT !.fd = FileFd, !.file = "slots"].call = "open"
            /\ [Call("setup") EXCEPT !.fd = RingFd].call = "setup"
        BY <3>1 DEF CallRecord
      <3>. QED BY <3>2 DEF Opens
    <2>2. \/ todo = <<x, y>>
          \/ todo = <<y>>
      BY <1>0, <1>1, <2>1 DEF TodoKnown
    <2>3. number = 0
      BY <1>0, <1>1 DEF TodoKnown
    <2>4. CASE todo = <<x, y>>
      <3>1. Head(todo) = x /\ Tail(todo) = <<y>> /\ Head(Tail(todo)) = y /\ todo = Opens
        BY <2>1, <2>4
      <3>. QED BY <1>1, <2>1, <2>3, <3>1
    <2>5. CASE todo = <<y>>
      <3>1. Head(todo) = y /\ Tail(todo) = <<>>
        BY <2>5
      <3>. QED BY <1>1, <2>1, <2>3, <3>1
    <2>. QED BY <2>2, <2>4, <2>5
  <1>2. CASE at = "submitting"
    <2>1. /\ Made \in 0 .. Len(Plan) - 1 /\ Head(todo) = Plan[Made + 1]
          /\ Len(Plan) \in Nat /\ Len(todo) = Len(Plan) - Made
          /\ \A i \in 1 .. Len(todo) - 1 : Tail(todo)[i] = Plan[Made + 1 + i]
          /\ Tail(todo) \in Seq(CallRecord) /\ Len(Tail(todo)) = Len(todo) - 1
      BY <1>0, <1>2, HeadIs
    <2>2. Made \in Nat /\ Made + 1 \in 1 .. Len(Plan)
      BY <2>1
    <2>3. Tail(todo) # <<>> => /\ Made + 2 \in 1 .. Len(Plan)
                               /\ Head(Tail(todo)) = Plan[Made + 2]
      <3>. SUFFICES ASSUME Tail(todo) # <<>>
                    PROVE  Made + 2 \in 1 .. Len(Plan) /\ Head(Tail(todo)) = Plan[Made + 2]
        OBVIOUS
      <3>1. Len(Tail(todo)) # 0 /\ Len(Tail(todo)) \in Nat /\ Head(Tail(todo)) = Tail(todo)[1]
        <4>. DEFINE rest == Tail(todo)
        <4>1. rest \in Seq(CallRecord) /\ rest # <<>>
          BY <2>1
        <4>. HIDE DEF rest
        <4>2. Len(rest) # 0 /\ Len(rest) \in Nat /\ Head(rest) = rest[1]
          BY <4>1, EmptySeq, LenProperties, HeadTailProperties
        <4>. QED BY <4>2 DEF rest
      <3>2. 1 \in 1 .. Len(todo) - 1 /\ Made + 2 \in 1 .. Len(Plan) /\ Made + 1 + 1 = Made + 2
        BY <2>1, <3>1
      <3>. QED BY <2>1, <3>1, <3>2
    <2>4. \A p \in 1 .. Len(Plan) :
              /\ Plan[p].call = "open" => p # 1 /\ Plan[p - 1].call = "close"
              /\ Plan[p].call = "close" => p + 1 \in 1 .. Len(Plan) /\ Plan[p + 1].call = "open"
              /\ Plan[p].call \in {"open", "close"} => mode = "helper"
      <3>1. batch # <<>> /\ number \in Nat
        BY <1>0, <1>2 DEF BatchKnown, RingTypes
      <3>. QED BY <1>0, <3>1, PlanFiles DEF Plan
    <2>5. Tail(todo) # <<>> /\ Head(Tail(todo)).call = "open" => Head(todo).call = "close"
      <3>. SUFFICES ASSUME Tail(todo) # <<>>, Head(Tail(todo)).call = "open"
                    PROVE  Head(todo).call = "close"
        OBVIOUS
      <3>1. (Made + 2) - 1 = Made + 1
        BY <2>2
      <3>2. Plan[Made + 2].call = "open" /\ Made + 2 \in 1 .. Len(Plan)
        BY <2>3
      <3>3. Plan[(Made + 2) - 1].call = "close"
        BY <2>4, <3>2
      <3>. QED BY <2>1, <3>1, <3>3
    <2>6. Head(todo).call = "close" => Tail(todo) # <<>> /\ Head(Tail(todo)).call = "open"
      <3>. SUFFICES ASSUME Head(todo).call = "close"
                    PROVE  Tail(todo) # <<>> /\ Head(Tail(todo)).call = "open"
        OBVIOUS
      <3>1. (Made + 1) + 1 \in 1 .. Len(Plan) /\ Plan[(Made + 1) + 1].call = "open"
        BY <2>1, <2>2, <2>4
      <3>2. (Made + 1) + 1 = Made + 2
        BY <2>2
      <3>3. Len(Tail(todo)) > 0
        BY <2>1, <2>2, <3>1
      <3>4. Tail(todo) # <<>>
        BY <3>3
      <3>. QED BY <2>3, <3>1, <3>2, <3>4
    <2>7. Head(todo).call \in {"open", "close"} => mode = "helper"
      BY <2>1, <2>2, <2>4
    <2>. QED BY <1>2, <2>5, <2>6, <2>7
  <1>3. CASE at \in {"draining", "failed", "succeeded"}
    <2>1. Tail(todo) = <<>>
      BY <1>0, <1>3, HeadIs
    <2>2. \E rows \in Seq(RowRecord) : Head(todo) = WriteOf(rows)
      <3>1. seen \in Seq(RowRecord)
        BY <1>0 DEF RingTypes
      <3>2. seen # <<>> => <<seen[Len(seen)]>> \in Seq(RowRecord)
        BY <3>1, LastOf
      <3>. QED BY <1>0, <1>3, <3>1, <3>2, HeadIs
    <2>3. Head(todo).call = "write"
      BY <2>2, CallKinds
    <2>. QED BY <2>1, <2>3
  <1>. QED BY <1>0, <1>1, <1>2, <1>3, HeadIs

LEMMA WriteCall ==
    ASSUME NEW rows
    PROVE  WriteOf(rows).call = "write" /\ <<WriteOf(rows)>> # <<>>
           /\ Head(<<WriteOf(rows)>>) = WriteOf(rows)
  BY DEF WriteOf, Call

LEMMA EntersLonger ==
    ASSUME NEW tr \in Seq(CallRecord), NEW e \in CallRecord
    PROVE  /\ e.call # "enter" => Enters(Append(tr, e)) = Enters(tr)
           /\ e.call = "enter" => Enters(Append(tr, e)) = Enters(tr) \cup {Len(tr) + 1}
           /\ Enters(tr) \subseteq 1 .. Len(tr)
  <1>1. Places(Append(tr, e), {"enter"})
          = Places(tr, {"enter"}) \cup (IF e.call \in {"enter"} THEN {Len(tr) + 1} ELSE {})
    BY PlacesLonger
  <1>2. Enters(Append(tr, e)) = Enters(tr) \cup (IF e.call = "enter" THEN {Len(tr) + 1} ELSE {})
    BY <1>1 DEF Enters
  <1>3. Enters(tr) \subseteq 1 .. Len(tr)
    BY LenProperties DEF Enters, Places
  <1>. QED BY <1>2, <1>3

(* The calls on the file are made while no number was entered with it. *)
LEMMA FilesEarlyStep ==
    ASSUME KernelInv, KernelInv', CallsKnown, FilesEarly, [RingNext]_ringVars
    PROVE  FilesEarly'
  <1>0. /\ RingTypes /\ BatchKnown /\ HelperKnown /\ TodoKnown /\ OperationsKnown
        /\ trace \in Seq(CallRecord) /\ todo \in Seq(CallRecord) /\ number \in Nat
    BY DEF KernelInv, RingTypes
  <1>1. CASE UNCHANGED ringVars \/ Dispatcher \/ CompleteOperation \/ Take
    <2>1. UNCHANGED <<mode, at, todo, number, file, trace>>
      BY <1>1 DEF ringVars, Dispatcher, SendJob, CloseInput, CompleteOperation, Take, started,
                  output
    <2>. QED BY <2>1 DEF FilesEarly, Opens
  <1>2. CASE Perform
    <2>. DEFINE e == Head(todo)
    <2>1. /\ todo # <<>> /\ e.call # "enter" /\ Effects(e) /\ todo' = Tail(todo)
          /\ trace' = Append(trace, e) \/ trace' = trace
          /\ UNCHANGED <<mode, at, number>>
      BY <1>2 DEF Perform, Recorded, Missed, started
    <2>2. e \in CallRecord
      BY <1>0, <2>1, HeadKnown
    <2>. HIDE DEF e
    <2>3. Enters(trace') = Enters(trace)
      <3>1. Enters(Append(trace, e)) = Enters(trace)
        BY <1>0, <2>1, <2>2, EntersLonger
      <3>. QED BY <2>1, <3>1
    <2>4. ~(at = "gathering" /\ todo' = Opens')
      <3>. SUFFICES ASSUME at = "gathering", todo' = Opens' PROVE FALSE
        OBVIOUS
      <3>1. PICK x, y : Opens = <<x, y>> /\ Opens' = <<x, y>>
        BY <2>1 DEF Opens
      <3>2. todo = <<x, y>> \/ todo = <<y>>
        BY <1>0, <2>1, <3>1 DEF TodoKnown
      <3>3. Tail(<<x, y>>) = <<y>> /\ Tail(<<y>>) = <<>>
        OBVIOUS
      <3>4. <<x, y>> # <<y>> /\ <<x, y>> # <<>>
        OBVIOUS
      <3>5. todo' = <<x, y>>
        BY <3>1
      <3>6. todo' = <<y>> \/ todo' = <<>>
        BY <2>1, <3>2, <3>3
      <3>. QED BY <3>4, <3>5, <3>6
    <2>5. ASSUME todo' # <<>>, Head(todo').call = "open" PROVE file' = NoFile
      <3>1. \/ todo = Opens /\ at = "gathering" /\ e.call = "setup"
            \/ e.call = "close"
        BY <2>1, <2>5, FileCalls DEF e
      <3>2. CASE todo = Opens /\ at = "gathering" /\ e.call = "setup"
        <4>1. file = NoFile
          BY <3>2 DEF FilesEarly
        <4>. QED BY <2>1, <3>2, <4>1 DEF Effects
      <3>3. CASE e.call = "close"
        BY <2>1, <3>3 DEF Effects
      <3>. QED BY <3>1, <3>2, <3>3
    <2>. QED BY <2>1, <2>3, <2>4, <2>5 DEF FilesEarly
  <1>3. CASE Torn \/ Killed
    <2>1. todo' = <<>> /\ UNCHANGED <<mode, at, number>> /\ Opens' # <<>>
      BY <1>3 DEF Torn, Killed, started, Opens
    <2>2. CASE trace' = trace
      BY <2>1, <2>2 DEF FilesEarly
    <2>3. ASSUME NEW e \in CallRecord, trace' = Append(trace, e), e.call # "enter" \/ at = "waiting"
          PROVE  FilesEarly'
      <3>1. e.call # "enter" => Enters(trace') = Enters(trace)
        BY <1>0, <2>3, EntersLonger
      <3>. QED BY <2>1, <2>3, <3>1 DEF FilesEarly
    <2>4. CASE Torn
      <3>1. /\ todo # <<>> /\ Head(todo).call # "enter"
            /\ trace' = Append(trace, [Head(todo) EXCEPT !.result = "short"])
        BY <2>4 DEF Torn, Markers
      <3>2. Head(todo) \in CallRecord
        BY <1>0, <3>1, HeadKnown
      <3>3. [Head(todo) EXCEPT !.result = "short"] \in CallRecord
            /\ [Head(todo) EXCEPT !.result = "short"].call = Head(todo).call
        BY <3>2 DEF CallRecord
      <3>. QED BY <2>3, <3>1, <3>3
    <2>5. CASE Killed
      <3>1. \/ trace' = trace
            \/ /\ todo # <<>> /\ Head(todo).call # "enter"
               /\ trace' = Append(trace, [Head(todo) EXCEPT !.result = "unknown"])
            \/ at = "waiting" /\ trace' = Append(trace, [Call("enter") EXCEPT !.result = "unknown"])
        BY <2>5 DEF Killed, output
      <3>2. CASE /\ todo # <<>> /\ Head(todo).call # "enter"
                 /\ trace' = Append(trace, [Head(todo) EXCEPT !.result = "unknown"])
        <4>1. Head(todo) \in CallRecord
          BY <1>0, <3>2, HeadKnown
        <4>2. [Head(todo) EXCEPT !.result = "unknown"] \in CallRecord
              /\ [Head(todo) EXCEPT !.result = "unknown"].call = Head(todo).call
          BY <4>1 DEF CallRecord
        <4>. QED BY <2>3, <3>2, <4>2
      <3>3. CASE at = "waiting" /\ trace' = Append(trace, [Call("enter") EXCEPT !.result = "unknown"])
        <4>1. Call("enter") \in CallRecord
          BY CallKinds DEF CallNames
        <4>2. [Call("enter") EXCEPT !.result = "unknown"] \in CallRecord
          BY <4>1 DEF CallRecord
        <4>. QED BY <2>3, <3>3, <4>2
      <3>. QED BY <2>2, <3>1, <3>2, <3>3
    <2>. QED BY <1>3, <2>4, <2>5
  <1>4. CASE Submit
    <2>1. /\ at = "gathering" /\ todo = <<>> /\ trace' = trace /\ file' = file
          /\ UNCHANGED <<mode, replaces, taken, batch>>
          /\ \/ UNCHANGED <<at, todo, number>>
             \/ /\ batch # <<>> /\ number' = number + 1 /\ at' = "submitting"
                /\ todo' = PlanOf(number + 1)
      BY <1>4 DEF Submit, Gathering, PlanOf, output, started
    <2>2. CASE UNCHANGED <<at, todo, number>>
      BY <2>1, <2>2 DEF FilesEarly, Opens
    <2>3. CASE /\ batch # <<>> /\ number' = number + 1 /\ at' = "submitting"
               /\ todo' = PlanOf(number + 1)
      <3>1. number' # 0 /\ (mode = "helper" => number = 0 /\ number + 1 = 1)
        BY <1>0, <2>1, <2>3 DEF HelperKnown
      <3>2. mode = "helper" => Enters(trace') = {}
        BY <2>1, <3>1 DEF FilesEarly
      <3>3. number + 1 \in Nat
        BY <1>0
      <3>4. PlanOf(number + 1)[1].call # "open"
        BY <1>0, <2>3, <3>1, <3>3, PlanKnown
      <3>5. todo' # <<>> => Head(todo') = todo'[1]
        <4>1. todo' \in Seq(CallRecord)
          BY DEF KernelInv, RingTypes
        <4>. QED BY <4>1, HeadTailProperties
      <3>. QED BY <2>1, <2>3, <3>1, <3>2, <3>4, <3>5 DEF FilesEarly
    <2>. QED BY <2>1, <2>2, <2>3
  <1>5. CASE EnterRing \/ Return
    <2>1. /\ at \in {"submitting", "waiting", "short"} /\ at' \in {"waiting", "short", "draining"}
          /\ number' = number
      BY <1>5 DEF EnterRing, Return
    <2>2. todo' = <<>>
      BY <1>0, <1>5 DEF EnterRing, Return, TodoKnown
    <2>. QED BY <2>1, <2>2 DEF FilesEarly
  <1>6. CASE Drain \/ Finish \/ DrainHelper \/ ExitHelper
    <2>1. /\ at \in {"draining", "failed", "succeeded"}
          /\ at' \in {"gathering", "draining", "failed", "succeeded"}
          /\ number' = number /\ trace' = trace
      BY <1>6 DEF Drain, Finish, DrainHelper, Flush, Draining, ExitHelper, output
    <2>2. todo' = <<>> \/ \E rows : todo' = <<WriteOf(rows)>>
      BY <1>6 DEF Drain, Finish, DrainHelper, Flush, Draining, ExitHelper
    <2>3. todo' # <<>> => Head(todo').call # "open"
      BY <2>2, WriteCall
    <2>4. at' = "gathering" => todo' = <<>>
      BY <1>6, <2>1 DEF Drain, Finish, DrainHelper, Flush, Draining, ExitHelper
    <2>5. number' # 0
      BY <2>1 DEF FilesEarly
    <2>6. Opens' # <<>>
      BY DEF Opens
    <2>. QED BY <2>1, <2>3, <2>4, <2>5, <2>6 DEF FilesEarly
  <1>. QED BY <1>1, <1>2, <1>3, <1>4, <1>5, <1>6 DEF RingNext, Program

LEMMA EnteredFiles ==
    ASSUME RingTypes, FilesRight, NEW e \in CallRecord, trace' = Append(trace, e),
           e.call = "enter" => /\ file' = file
                               /\ Resource(trace, FileFd, Len(trace) + 1) \in {file, Unresolved},
           e.call # "enter" => file' = file \/ Enters(trace) = {}
    PROVE  \A i \in Enters(trace') : Resource(trace', FileFd, i) \in {file', Unresolved}
  <1>. DEFINE n == Len(trace)
  <1>1. trace \in Seq(CallRecord) /\ n \in Nat
    BY LenProperties DEF RingTypes
  <1>2. \A i \in 1 .. n + 1 : Resource(trace', FileFd, i) = Resource(trace, FileFd, i)
    BY <1>1, ResourceLonger
  <1>3. /\ e.call # "enter" => Enters(trace') = Enters(trace)
        /\ e.call = "enter" => Enters(trace') = Enters(trace) \cup {n + 1}
        /\ Enters(trace) \subseteq 1 .. n
    BY <1>1, EntersLonger
  <1>4. e.call = "enter" => Resource(trace, FileFd, n + 1) \in {file, Unresolved}
    OBVIOUS
  <1>. HIDE DEF n
  <1>5. \A i \in Enters(trace) : i \in 1 .. n + 1
    BY <1>1, <1>3
  <1>6. n + 1 \in 1 .. n + 1
    BY <1>1
  <1>7. \A i \in Enters(trace) : Resource(trace, FileFd, i) \in {file, Unresolved}
    BY DEF FilesRight
  <1>8. CASE e.call = "enter"
    <2>1. \A i \in Enters(trace') : i \in Enters(trace) \/ i = n + 1
      BY <1>3, <1>8
    <2>. QED BY <1>2, <1>4, <1>5, <1>6, <1>7, <1>8, <2>1
  <1>9. CASE e.call # "enter"
    BY <1>2, <1>3, <1>5, <1>7, <1>9
  <1>. QED BY <1>8, <1>9

(* What a call on the file changes, and when. *)
LEMMA FileEffects ==
    ASSUME KernelInv, CallsKnown, FilesEarly, FilesRight, todo # <<>>,
           Effects(Head(todo)) \/ UNCHANGED <<sidecar, native, file>>
    PROVE  /\ file' = file \/ Enters(trace) = {}
           /\ mode = "shared" => file' # "replacement"
           /\ Head(todo).call \notin {"open", "close"} => file' = file
  <1>. DEFINE e == Head(todo)
  <1>1. RingTypes /\ KnownCall(e) /\ e \in CallRecord
    BY HeadKnown DEF KernelInv
  <1>2. /\ file' = file \/ e.call \in {"open", "close"}
        /\ \/ file' = file
           \/ e.call = "open" /\ file' = e.file
           \/ file' = NoFile
    BY DEF Effects
  <1>3. e.call \in {"open", "close"} => Enters(trace) = {}
    BY FileCalls DEF FilesEarly
  <1>4. NoFile # "replacement" /\ "slots" # "replacement"
    BY DEF NoFile
  <1>5. mode = "shared" /\ e.call = "open" => e.file = "slots"
    BY <1>1 DEF KnownCall
  <1>6. mode = "shared" => file # "replacement"
    BY DEF FilesRight
  <1>. HIDE DEF e
  <1>7. mode = "shared" => file' # "replacement"
    BY <1>2, <1>4, <1>5, <1>6
  <1>. QED BY <1>2, <1>3, <1>7 DEF e

LEMMA FilesPerformed ==
    ASSUME KernelInv, KernelInv', CallsKnown, FilesEarly, FilesRight, Perform
    PROVE  FilesRight'
  <1>. DEFINE e == Head(todo)
              n == Len(trace)
  <1>1. /\ Running /\ todo # <<>> /\ e.call # "enter" /\ Effects(e) /\ todo' = Tail(todo)
        /\ mode' = mode
        /\ \/ trace' = Append(trace, e)
           \/ trace' = trace /\ "lost" \notin faults /\ "lost" \in faults'
    BY DEF Perform, Recorded, Missed, Fault, started
  <1>2. RingTypes /\ trace \in Seq(CallRecord) /\ n \in Nat
    BY LenProperties DEF KernelInv, RingTypes
  <1>3. e \in CallRecord /\ KnownCall(e) /\ e.result = "ok"
    BY <1>1, <1>2, HeadKnown
  <1>4. /\ file' = file \/ Enters(trace) = {}
        /\ mode = "shared" => file' # "replacement"
        /\ e.call \notin {"open", "close"} => file' = file
    BY <1>1, FileEffects
  <1>5. /\ e.call = "open" => file' = e.file /\ file = NoFile
        /\ e.call = "close" => file' = NoFile
    BY <1>1 DEF Effects, FilesEarly
  <1>6. Changes(e, FileFd) <=> e.call \in {"open", "close"}
    BY <1>3 DEF Changes, KnownCall, FileFd, RingFd
  <1>7. e.call = "close" => todo' # <<>> /\ Head(todo').call = "open"
    BY <1>1, FileCalls
  <1>8. \/ Resource(trace, FileFd, n + 1) \in {file, Unresolved}
        \/ "lost" \in faults /\ file = NoFile /\ e.call = "open"
    BY <1>1 DEF FilesRight
  <1>9. \A c \in ToSet(trace) : c.call = "open" => c.file # NoFile
    BY DEF CallsKnown, KnownCall, NoFile
  <1>10. Resource(trace, FileFd, n + 1) # NoFile
    <2>1. n + 1 \in 1 .. n + 1
      BY <1>2
    <2>. QED BY <1>2, <1>9, <2>1, ResourceOpened
  <1>. HIDE DEF e
  <1>11. CASE trace' = Append(trace, e)
    <2>1. \A i \in Enters(trace') : Resource(trace', FileFd, i) \in {file', Unresolved}
      BY <1>1, <1>2, <1>3, <1>4, <1>11, EnteredFiles
    <2>2. Resource(trace', FileFd, n + 2)
             = IF ~Changes(e, FileFd) THEN Resource(trace, FileFd, n + 1)
               ELSE IF e.call = "open" /\ e.result = "ok" THEN e.file ELSE Unresolved
      BY <1>2, <1>3, <1>11, ResourceLonger
    <2>3. Len(trace') + 1 = n + 2
      <3>1. Len(trace') = n + 1
        BY <1>2, <1>3, <1>11, TraceLonger
      <3>. QED BY <1>2, <3>1
    <2>. HIDE DEF n
    <2>4. Resource(trace', FileFd, n + 2) \in {file', Unresolved}
      <3>1. CASE e.call = "open"
        BY <1>3, <1>5, <1>6, <2>2, <3>1
      <3>2. CASE e.call = "close"
        BY <1>6, <2>2, <3>2
      <3>3. CASE e.call \notin {"open", "close"}
        BY <1>4, <1>6, <1>8, <2>2, <3>3
      <3>. QED BY <3>1, <3>2, <3>3
    <2>. QED BY <1>1, <1>4, <2>1, <2>3, <2>4 DEF FilesRight
  <1>12. CASE trace' = trace /\ "lost" \notin faults /\ "lost" \in faults'
    <2>1. \A i \in Enters(trace') : Resource(trace', FileFd, i) \in {file', Unresolved}
      BY <1>4, <1>12 DEF FilesRight
    <2>2. Resource(trace, FileFd, n + 1) \in {file, Unresolved}
      BY <1>8, <1>12
    <2>. HIDE DEF n
    <2>3. CASE e.call = "open"
      <3>1. Resource(trace, FileFd, n + 1) = Unresolved
        BY <1>5, <1>10, <2>2, <2>3
      <3>. QED BY <1>1, <1>4, <1>12, <2>1, <3>1 DEF FilesRight, n
    <2>4. CASE e.call = "close"
      BY <1>1, <1>4, <1>5, <1>7, <1>12, <2>1, <2>4 DEF FilesRight
    <2>5. CASE e.call \notin {"open", "close"}
      BY <1>1, <1>4, <1>12, <2>1, <2>2, <2>5 DEF FilesRight, n
    <2>. QED BY <2>3, <2>4, <2>5
  <1>. QED BY <1>1, <1>11, <1>12

(* A number denotes at an enter the file that it will still denote when the   *)
(* program ends, or nothing that the trace tells.                             *)
LEMMA FilesStep ==
    ASSUME KernelInv, KernelInv', CallsKnown, FilesEarly, FilesRight, [RingNext]_ringVars
    PROVE  FilesRight'
  <1>0. /\ RingTypes /\ BatchKnown /\ HelperKnown /\ TodoKnown /\ OperationsKnown
        /\ trace \in Seq(CallRecord) /\ Len(trace) \in Nat
    BY LenProperties DEF KernelInv, RingTypes
  <1>1. mode' = mode
    BY <1>0, NothingForgotten DEF ringVars
  <1>2. ASSUME trace' = trace, file' = file,
               Running' => /\ Running /\ faults \subseteq faults'
                           /\ todo' = todo \/ todo = <<>> \/ Head(todo).call # "open"
        PROVE  FilesRight'
    BY <1>1, <1>2 DEF FilesRight
  (* A call that ends it, or is an enter. *)
  <1>3. ASSUME NEW e \in CallRecord, trace' = Append(trace, e),
               e.call = "enter" => at \in {"waiting", "short"} /\ Running /\ file' = file,
               e.call # "enter" => file' = file \/ Enters(trace) = {},
               mode = "shared" => file' # "replacement",
               Running' => e.call = "enter"
        PROVE  FilesRight'
    <2>1. e.call = "enter" => Resource(trace, FileFd, Len(trace) + 1) \in {file, Unresolved}
      <3>1. e.call = "enter" => todo = <<>>
        BY <1>0, <1>3 DEF TodoKnown
      <3>. QED BY <1>3, <3>1 DEF FilesRight
    <2>2. \A i \in Enters(trace') : Resource(trace', FileFd, i) \in {file', Unresolved}
      BY <1>0, <1>3, <2>1, EnteredFiles
    <2>3. ~Changes(e, FileFd) => Resource(trace', FileFd, Len(trace) + 2)
                                   = Resource(trace, FileFd, Len(trace) + 1)
      BY <1>0, <1>3, ResourceLonger
    <2>4. e.call = "enter" => ~Changes(e, FileFd)
      BY DEF Changes
    <2>5. Len(trace') + 1 = Len(trace) + 2
      <3>1. Len(trace') = Len(trace) + 1
        BY <1>0, <1>3, TraceLonger
      <3>. QED BY <1>0, <3>1
    <2>6. Running' => Resource(trace', FileFd, Len(trace') + 1) \in {file', Unresolved}
      BY <1>3, <2>1, <2>3, <2>4, <2>5
    <2>. QED BY <1>1, <1>3, <2>2, <2>6 DEF FilesRight
  <1>4. CASE UNCHANGED ringVars \/ Dispatcher \/ CompleteOperation \/ Take \/ Submit
    <2>1. /\ trace' = trace /\ file' = file /\ (Running' => Running) /\ faults \subseteq faults'
          /\ todo' = todo \/ todo = <<>>
      BY <1>4 DEF ringVars, Dispatcher, SendJob, CloseInput, CompleteOperation, Take, Submit,
                  Gathering, started, output, Running, Fault
    <2>. QED BY <1>2, <2>1
  <1>5. CASE EnterRing
    <2>1. /\ trace' = trace /\ file' = file /\ Running /\ todo = <<Enter>>
          /\ faults \subseteq faults'
      BY <1>5 DEF EnterRing, output, Fault
    <2>2. Head(todo).call = "enter"
      <3>1. Enter.call = "enter"
        BY <1>0, EnterIs
      <3>. QED BY <2>1, <3>1
    <2>. QED BY <1>2, <2>1, <2>2
  <1>6. CASE Drain \/ Finish \/ DrainHelper \/ ExitHelper
    <2>1. trace' = trace /\ file' = file /\ Running /\ todo = <<>> /\ faults' = faults
      BY <1>6 DEF Drain, Finish, DrainHelper, Draining, ExitHelper, output
    <2>. QED BY <1>2, <2>1
  <1>7. CASE Return
    <2>. DEFINE short == [Enter EXCEPT !.result = "short"]
    <2>1. /\ Running /\ at \in {"waiting", "short"} /\ file' = file /\ todo' = todo
          /\ \/ trace' = trace /\ faults \subseteq faults'
             \/ trace' = Append(trace, Enter)
             \/ trace' = Append(trace, short)
      BY <1>7 DEF Return, Recorded, Missed, Fault
    <2>2. Enter \in CallRecord /\ Enter.call = "enter"
      BY <1>0, EnterIs
    <2>3. short \in CallRecord /\ short.call = "enter"
      <3>. HIDE DEF Enter
      <3>. QED BY <2>2 DEF CallRecord
    <2>. HIDE DEF short, Enter
    <2>4. mode = "shared" => file' # "replacement"
      BY <2>1 DEF FilesRight
    <2>. QED BY <1>2, <1>3, <2>1, <2>2, <2>3, <2>4
  <1>8. CASE Torn
    <2>. DEFINE short == [Head(todo) EXCEPT !.result = "short"]
    <2>1. /\ todo # <<>> /\ Head(todo).call # "enter" /\ trace' = Append(trace, short)
          /\ file' = file /\ ~Running'
      BY <1>8 DEF Torn, Markers, Running
    <2>2. Head(todo) \in CallRecord
      BY <1>0, <2>1, HeadKnown
    <2>3. short \in CallRecord /\ short.call # "enter"
      BY <2>1, <2>2 DEF CallRecord
    <2>. HIDE DEF short
    <2>4. mode = "shared" => file' # "replacement"
      BY <2>1 DEF FilesRight
    <2>. QED BY <1>3, <2>1, <2>3, <2>4
  <1>9. CASE Killed
    <2>. DEFINE unknown == [Head(todo) EXCEPT !.result = "unknown"]
                enter == [Call("enter") EXCEPT !.result = "unknown"]
    <2>1. /\ Running /\ ~Running'
          /\ \/ trace' = trace /\ file' = file
             \/ /\ todo # <<>> /\ Head(todo).call # "enter" /\ trace' = Append(trace, unknown)
                /\ Effects(Head(todo)) \/ UNCHANGED <<sidecar, native, file>>
             \/ at = "waiting" /\ trace' = Append(trace, enter) /\ file' = file
      BY <1>9 DEF Killed, Running, output
    <2>2. CASE trace' = trace /\ file' = file
      BY <1>2, <2>1, <2>2
    <2>3. CASE /\ todo # <<>> /\ Head(todo).call # "enter" /\ trace' = Append(trace, unknown)
               /\ Effects(Head(todo)) \/ UNCHANGED <<sidecar, native, file>>
      <3>1. Head(todo) \in CallRecord
        BY <1>0, <2>3, HeadKnown
      <3>2. unknown \in CallRecord /\ unknown.call # "enter"
        BY <2>3, <3>1 DEF CallRecord
      <3>3. /\ file' = file \/ Enters(trace) = {}
            /\ mode = "shared" => file' # "replacement"
        BY <2>3, FileEffects
      <3>. HIDE DEF unknown
      <3>. QED BY <1>3, <2>1, <2>3, <3>2, <3>3
    <2>4. CASE at = "waiting" /\ trace' = Append(trace, enter) /\ file' = file
      <3>1. Call("enter") \in CallRecord /\ Call("enter").call = "enter"
        BY CallKinds DEF CallNames
      <3>2. enter \in CallRecord /\ enter.call = "enter"
        BY <3>1 DEF CallRecord
      <3>. HIDE DEF enter
      <3>3. mode = "shared" => file' # "replacement"
        BY <2>4 DEF FilesRight
      <3>. QED BY <1>3, <2>1, <2>4, <3>2, <3>3
    <2>. QED BY <2>1, <2>2, <2>3, <2>4
  <1>. QED BY <1>4, <1>5, <1>6, <1>7, <1>8, <1>9, FilesPerformed DEF RingNext, Program

-----------------------------------------------------------------------------
(* What an empty trace tells. *)
LEMMA EmptyTrace ==
    /\ MarkersOf(<<>>) = <<>> /\ Enters(<<>>) = {}
    /\ JobAt(<<>>, 1) = NoJob
    /\ Resource(<<>>, FileFd, 1) = Unresolved
  <1>1. DOMAIN <<>> = {}
    OBVIOUS
  <1>2. MarkersOf(<<>>) = <<>>
    <2>1. [i \in DOMAIN <<>> |-> IF <<>>[i].call \in Markers THEN <<<<>>[i]>> ELSE <<>>] = <<>>
      OBVIOUS
    <2>2. FlattenSeq(<<>>) = <<>>
      BY DEF FlattenSeq
    <2>. QED BY <2>1, <2>2 DEF MarkersOf
  <1>3. \A names : Places(<<>>, names) = {}
    BY <1>1 DEF Places
  <1>4. JobAt(<<>>, 1) = NoJob
    BY <1>3 DEF JobAt
  <1>5. Resource(<<>>, FileFd, 1) = Unresolved
    <2>1. 1 .. 1 - 1 = {}
      OBVIOUS
    <2>. QED BY <2>1 DEF Resource, FileFd, BadFd
  <1>. QED BY <1>2, <1>3, <1>4, <1>5 DEF Enters

LEMMA EvidenceStart ==
    ASSUME RingInit
    PROVE  EvidenceInv
  <1>1. /\ trace = <<>> /\ sidecar = <<>> /\ native = <<>> /\ truth = {} /\ inflight = {}
        /\ at = "gathering" /\ number = 0 /\ file = NoFile /\ todo = Opens
        /\ mode \in {"shared", "helper"}
    BY DEF RingInit
  <1>2. KernelInv
    BY KernelStart
  <1>3. Len(<<>>) = 0 /\ DOMAIN <<>> = {} /\ ToSet(<<>>) = {}
    BY DEF ToSet
  <1>4. CallsKnown
    <2>. DEFINE open == [Call("open") EXCEPT !.fd = FileFd, !.file = "slots"]
                setup == [Call("setup") EXCEPT !.fd = RingFd]
    <2>1. /\ open.call = "open" /\ open.fd = FileFd /\ open.file = "slots" /\ open.rows = <<>>
          /\ open.result = "ok"
          /\ setup.call = "setup" /\ setup.fd = RingFd /\ setup.rows = <<>>
          /\ setup.result = "ok"
      BY DEF Call
    <2>. HIDE DEF open, setup
    <2>2. KnownCall(open) /\ KnownCall(setup)
      BY <1>3, <2>1 DEF KnownCall
    <2>3. todo = <<open, setup>> \/ todo = <<setup, open>>
      BY <1>1 DEF Opens, open, setup
    <2>4. \A e \in ToSet(todo) : e = open \/ e = setup
      BY <2>3 DEF ToSet
    <2>. QED BY <1>1, <1>3, <2>1, <2>2, <2>4 DEF CallsKnown
  <1>5. SubmissionsWritten
    BY <1>1 DEF SubmissionsWritten
  <1>6. MarkersMatch
    BY <1>1, <1>3, EmptyTrace DEF MarkersMatch
  <1>7. JobsRight
    <2>1. OwnedRows(<<>>)
      BY <1>3 DEF OwnedRows
    <2>2. InHand = NoJob
      BY <1>1 DEF InHand
    <2>3. Len(trace) + 1 = 1
      BY <1>1, <1>3
    <2>. QED BY <1>1, <2>1, <2>2, <2>3, EmptyTrace DEF JobsRight
  <1>8. FilesEarly
    BY <1>1, EmptyTrace DEF FilesEarly
  <1>9. FilesRight
    <2>1. Len(trace) + 1 = 1
      BY <1>1, <1>3
    <2>2. NoFile # "replacement"
      BY DEF NoFile
    <2>. QED BY <1>1, <2>1, <2>2, EmptyTrace DEF FilesRight
  <1>. QED BY <1>2, <1>4, <1>5, <1>6, <1>7, <1>8, <1>9 DEF EvidenceInv

LEMMA EvidenceStep ==
    ASSUME EvidenceInv, [RingNext]_ringVars
    PROVE  EvidenceInv'
  <1>1. KernelInv /\ CallsKnown /\ SubmissionsWritten /\ MarkersMatch /\ JobsRight
        /\ FilesEarly /\ FilesRight
    BY DEF EvidenceInv
  <1>2. KernelInv' /\ RingTypes'
    BY <1>1, KernelStep DEF KernelInv
  <1>3. CallsKnown'
    BY <1>1, <1>2, CallsStep
  <1>4. SubmissionsWritten'
    BY <1>1, <1>2, SubmissionsStep
  <1>5. MarkersMatch'
    BY <1>1, MarkersStep
  <1>6. JobsRight'
    BY <1>1, <1>2, <1>5, JobsStep
  <1>7. FilesEarly' /\ FilesRight'
    BY <1>1, <1>2, FilesEarlyStep, FilesStep
  <1>. QED BY <1>2, <1>3, <1>4, <1>5, <1>6, <1>7 DEF EvidenceInv

LEMMA EvidenceAlways == RingSpec => []EvidenceInv
  <1>1. RingInit => EvidenceInv
    BY EvidenceStart
  <1>2. EvidenceInv /\ [RingNext]_ringVars => EvidenceInv'
    BY EvidenceStep
  <1>. QED BY <1>1, <1>2, PTL DEF RingSpec

-----------------------------------------------------------------------------
(* The nth of a bounded set of numbers. *)
LEMMA NthOf ==
    ASSUME NEW b \in Nat, NEW S, S \subseteq 1 .. b, NEW n \in 1 .. Cardinality(S)
    PROVE  \E i \in S : Cardinality({k \in S : k <= i}) = n
  <1>. DEFINE Upto(i) == {k \in S : k <= i}
              A == {i \in Nat : Cardinality(Upto(i)) >= n}
  <1>0. IsFiniteSet(S) /\ Cardinality(S) \in Nat
    <2>1. IsFiniteSet(1 .. b)
      BY FS_Interval
    <2>2. IsFiniteSet(S)
      BY <2>1, FS_Subset
    <2>. QED BY <2>2, FS_CardinalityType
  <1>1. \A i : IsFiniteSet(Upto(i)) /\ Cardinality(Upto(i)) \in Nat
    <2>. SUFFICES ASSUME NEW i
                  PROVE  IsFiniteSet(Upto(i)) /\ Cardinality(Upto(i)) \in Nat
      OBVIOUS
    <2>1. IsFiniteSet(Upto(i))
      BY <1>0, FS_Subset
    <2>. QED BY <2>1, FS_CardinalityType
  <1>2. Upto(b) = S
    <2>1. \A k \in S : k <= b
      OBVIOUS
    <2>. QED BY <2>1
  <1>3. b \in A
    BY <1>0, <1>2
  <1>4. PICK i \in A : \A k \in A : i <= k
    <2>1. A \in SUBSET Nat /\ A # {}
      BY <1>3
    <2>. HIDE DEF A
    <2>. QED BY <2>1, LeastNumber
  <1>5. i \in Nat /\ Cardinality(Upto(i)) >= n
    OBVIOUS
  <1>6. i # 0
    <2>1. Upto(0) = {}
      <3>1. \A k \in S : ~(k <= 0)
        OBVIOUS
      <3>. QED BY <3>1
    <2>2. Cardinality(Upto(0)) = 0
      BY <2>1, FS_EmptySet
    <2>. QED BY <1>5, <2>2
  <1>7. i - 1 \in Nat /\ ~(Cardinality(Upto(i - 1)) >= n)
    <2>1. i - 1 \in Nat /\ ~(i <= i - 1)
      BY <1>5, <1>6
    <2>. QED BY <1>4, <2>1
  <1>8. i \in S
    <2>. SUFFICES ASSUME i \notin S PROVE FALSE
      OBVIOUS
    <2>1. Upto(i) = Upto(i - 1)
      <3>1. \A k \in S : k \in Nat /\ k # i
        OBVIOUS
      <3>2. \A k \in S : k <= i <=> k <= i - 1
        BY <1>5, <3>1
      <3>. QED BY <3>2
    <2>. QED BY <1>5, <1>7, <2>1
  <1>9. Upto(i) = Upto(i - 1) \cup {i} /\ i \notin Upto(i - 1)
    <2>1. \A k \in S : k <= i <=> k <= i - 1 \/ k = i
      BY <1>5
    <2>2. ~(i <= i - 1)
      BY <1>5
    <2>. QED BY <1>8, <2>1, <2>2
  <1>. DEFINE before == Upto(i - 1)
  <1>10. IsFiniteSet(before) /\ Cardinality(before) \in Nat
    BY <1>1
  <1>11. Cardinality(before \cup {i}) = Cardinality(before) + 1
    <2>1. i \notin before
      BY <1>9
    <2>. HIDE DEF before
    <2>. QED BY <1>10, <2>1, FS_AddElement
  <1>12. Cardinality(Upto(i)) = Cardinality(before) + 1
    BY <1>9, <1>11
  <1>13. Cardinality(Upto(i)) = n
    BY <1>0, <1>5, <1>7, <1>10, <1>12
  <1>. QED BY <1>8, <1>13

LEMMA EnterAt ==
    ASSUME NEW tr \in Seq(CallRecord), NEW n \in 1 .. Cardinality(Enters(tr))
    PROVE  EnterOf(tr, n) \in Enters(tr)
  <1>1. Enters(tr) \subseteq 1 .. Len(tr) /\ Len(tr) \in Nat
    BY LenProperties DEF Enters, Places
  <1>2. \E i \in Enters(tr) : Cardinality({k \in Enters(tr) : k <= i}) = n
    BY <1>1, NthOf
  <1>. QED BY <1>2 DEF EnterOf

(* The operations that the rows of a trace tell of. *)
LEMMA JoinedIs ==
    ASSUME NEW rows \in Seq(RowRecord), NEW o \in Joined(rows)
    PROVE  \E s, c \in ToSet(rows) :
              /\ s.kind = "sqe" /\ c.kind = "cqe" /\ s.id = c.id
              /\ o.id = s.id /\ o.op = s.op /\ o.fd = s.fd /\ o.result = c.result
  <1>1. PICK p \in RowPairs(rows) :
           o = [id |-> rows[p[1]].id, op |-> rows[p[1]].op, fd |-> rows[p[1]].fd,
                result |-> rows[p[2]].result]
    BY DEF Joined
  <1>2. /\ p[1] \in DOMAIN rows /\ p[2] \in DOMAIN rows
        /\ rows[p[1]].kind = "sqe" /\ rows[p[2]].kind = "cqe" /\ rows[p[1]].id = rows[p[2]].id
    BY DEF RowPairs
  <1>3. rows[p[1]] \in ToSet(rows) /\ rows[p[2]] \in ToSet(rows)
    BY <1>2 DEF ToSet
  <1>. QED BY <1>1, <1>2, <1>3

LEMMA JoinedAll ==
    ASSUME NEW rows \in Seq(RowRecord), Joinable(rows), NEW s \in ToSet(rows), s.kind = "sqe"
    PROVE  \E o \in Joined(rows) : o.id = s.id
  <1>1. PICK a \in DOMAIN rows : rows[a] = s
    BY DEF ToSet
  <1>2. PICK c \in DOMAIN rows : rows[c].kind = "cqe" /\ rows[c].id = s.id
    BY <1>1 DEF Joinable
  <1>3. <<a, c>> \in RowPairs(rows)
    BY <1>1, <1>2 DEF RowPairs
  <1>. DEFINE o == [id |-> rows[a].id, op |-> rows[a].op, fd |-> rows[a].fd,
                    result |-> rows[c].result]
  <1>4. o \in Joined(rows)
    <2>1. <<a, c>>[1] = a /\ <<a, c>>[2] = c
      OBVIOUS
    <2>. QED BY <1>3, <2>1 DEF Joined
  <1>5. o.id = s.id
    BY <1>1
  <1>. QED BY <1>4, <1>5

LEMMA RowsOnce ==
    ASSUME NEW rows \in Seq(RowRecord), Joinable(rows), NEW a \in ToSet(rows),
           NEW b \in ToSet(rows), a.kind = b.kind, a.id = b.id
    PROVE  a = b
  <1>1. PICK x \in DOMAIN rows : rows[x] = a
    BY DEF ToSet
  <1>2. PICK y \in DOMAIN rows : rows[y] = b
    BY DEF ToSet
  <1>. QED BY <1>1, <1>2 DEF Joinable

LEMMA JoinedOnce ==
    ASSUME NEW rows \in Seq(RowRecord), Joinable(rows), NEW o \in Joined(rows),
           NEW q \in Joined(rows), o.id = q.id
    PROVE  o = q
  <1>1. PICK p \in RowPairs(rows) :
           o = [id |-> rows[p[1]].id, op |-> rows[p[1]].op, fd |-> rows[p[1]].fd,
                result |-> rows[p[2]].result]
    BY DEF Joined
  <1>2. PICK r \in RowPairs(rows) :
           q = [id |-> rows[r[1]].id, op |-> rows[r[1]].op, fd |-> rows[r[1]].fd,
                result |-> rows[r[2]].result]
    BY DEF Joined
  <1>3. /\ p[1] \in DOMAIN rows /\ p[2] \in DOMAIN rows /\ r[1] \in DOMAIN rows
        /\ r[2] \in DOMAIN rows
        /\ rows[p[1]].kind = "sqe" /\ rows[p[2]].kind = "cqe" /\ rows[p[1]].id = rows[p[2]].id
        /\ rows[r[1]].kind = "sqe" /\ rows[r[2]].kind = "cqe" /\ rows[r[1]].id = rows[r[2]].id
    BY DEF RowPairs
  <1>4. rows[p[1]].id = rows[r[1]].id
    BY <1>1, <1>2
  <1>. DEFINE x == p[1]
              y == p[2]
              u == r[1]
              v == r[2]
  <1>5. x = u /\ y = v
    <2>1. /\ x \in DOMAIN rows /\ y \in DOMAIN rows /\ u \in DOMAIN rows /\ v \in DOMAIN rows
          /\ rows[x].kind = rows[u].kind /\ rows[x].id = rows[u].id
          /\ rows[y].kind = rows[v].kind /\ rows[y].id = rows[v].id
      BY <1>3, <1>4
    <2>. HIDE DEF x, y, u, v
    <2>. QED BY <2>1 DEF Joinable
  <1>. QED BY <1>1, <1>2, <1>5

LEMMA TraceRows ==
    ASSUME KernelInv, CallsKnown
    PROVE  /\ Rows(trace) \in Seq(RowRecord)
           /\ \A r \in ToSet(Rows(trace)) : KnownRow(r)
           /\ \A r \in ToSet(Rows(trace)) : \E i \in Places(trace, {"write"}) :
                 r \in ToSet(trace[i].rows)
  <1>1. trace \in Seq(CallRecord)
    BY DEF KernelInv, RingTypes
  <1>2. Rows(trace) \in Seq(RowRecord)
    BY <1>1, RowsAre
  <1>3. ASSUME NEW r \in ToSet(Rows(trace))
        PROVE  KnownRow(r) /\ \E i \in Places(trace, {"write"}) : r \in ToSet(trace[i].rows)
    <2>1. PICK i \in DOMAIN trace : r \in ToSet(trace[i].rows)
      BY <1>1, <1>3, RowsAre
    <2>2. trace[i] \in ToSet(trace)
      BY DEF ToSet
    <2>3. KnownCall(trace[i])
      BY <2>2 DEF CallsKnown
    <2>4. trace[i].call = "write"
      BY <2>1, <2>3, NoCalls DEF KnownCall
    <2>. QED BY <2>1, <2>3, <2>4 DEF KnownCall, Places
  <1>. QED BY <1>2, <1>3

(* A submission and the completion of its number are an operation that the    *)
(* kernel performed.                                                          *)
LEMMA JoinIsTrue ==
    ASSUME KernelInv, NEW s, NEW c, KnownRow(s), KnownRow(c),
           s.kind = "sqe", c.kind = "cqe", s.id = c.id
    PROVE  \E j \in 1 .. taken, i \in {1, 2} :
              /\ Outcome(j, i, c.result) \in truth
              /\ s.id = IdOf(j, i) /\ s.op = JobOps[i] /\ s.fd = FdOf(JobOps[i])
  <1>0. taken \in Nat
    BY DEF KernelInv, RingTypes
  <1>1. PICK j \in 1 .. taken, i \in {1, 2} :
           s = Row("sqe", IdOf(j, i), JobOps[i], FdOf(JobOps[i]), "none", s.batch)
    BY DEF KnownRow
  <1>. DEFINE fd == FdOf(JobOps[i])
              op == JobOps[i]
              id == IdOf(j, i)
              b == s.batch
  <1>2. s.id = id /\ s.op = op /\ s.fd = fd
    <2>1. s = Row("sqe", id, op, fd, "none", b)
      BY <1>1
    <2>. HIDE DEF fd, op, id, b
    <2>. QED BY <2>1 DEF Row
  <1>3. PICK t \in truth : t.id = c.id /\ t.result = c.result
    BY DEF KnownRow
  <1>4. PICK k \in 1 .. taken, m \in {1, 2} : \E result : t = Outcome(k, m, result)
    BY DEF KernelInv, OperationsKnown
  <1>5. t = Outcome(k, m, c.result) /\ t.id = IdOf(k, m)
    BY <1>3, <1>4 DEF Outcome
  <1>6. IdOf(j, i) = IdOf(k, m) /\ j \in Nat /\ k \in Nat
    BY <1>0, <1>2, <1>3, <1>5
  <1>7. j = k /\ i = m
    BY <1>6, IdsDiffer
  <1>. QED BY <1>2, <1>5, <1>7

(* The operation that a join is reported as. *)
LEMMA ReportIsTrue ==
    ASSUME KernelInv, CallsKnown, FilesRight, NEW o \in Joined(Rows(trace)),
           NEW owner, NEW place \in Enters(trace),
           \A s \in ToSet(Rows(trace)) : s.kind = "sqe" /\ s.id = o.id =>
              \A j \in 1 .. taken, i \in {1, 2} : s.id = IdOf(j, i) => owner[o.id] = j,
           NEW x, x = [id |-> o.id, op |-> o.op, job |-> owner[o.id], result |-> o.result,
                       file |-> Resource(trace, o.fd, place)]
    PROVE  \E t \in truth : x = t \/ (x.file = Unresolved /\ [t EXCEPT !.file = Unresolved] = x)
  <1>1. /\ Rows(trace) \in Seq(RowRecord)
        /\ \A r \in ToSet(Rows(trace)) : KnownRow(r)
    BY TraceRows
  <1>2. PICK s, c \in ToSet(Rows(trace)) :
           /\ s.kind = "sqe" /\ c.kind = "cqe" /\ s.id = c.id
           /\ o.id = s.id /\ o.op = s.op /\ o.fd = s.fd /\ o.result = c.result
    BY <1>1, JoinedIs
  <1>3. PICK j \in 1 .. taken, i \in {1, 2} :
           /\ Outcome(j, i, c.result) \in truth
           /\ s.id = IdOf(j, i) /\ s.op = JobOps[i] /\ s.fd = FdOf(JobOps[i])
    BY <1>1, <1>2, JoinIsTrue
  <1>4. owner[o.id] = j
    BY <1>2, <1>3
  <1>. DEFINE said == Resource(trace, o.fd, place)
              is == IF JobOps[i] = "read" THEN Invalid ELSE file
              op == JobOps[i]
              id == IdOf(j, i)
              r == c.result
              y == [id |-> id, op |-> op, job |-> j, result |-> r, file |-> said]
              t == [id |-> id, op |-> op, job |-> j, result |-> r, file |-> is]
  <1>5. said = is \/ said = Unresolved
    <2>1. CASE JobOps[i] = "read"
      BY <1>2, <1>3, <2>1 DEF Resource, FdOf
    <2>2. CASE JobOps[i] # "read"
      <3>1. o.fd = FileFd
        BY <1>2, <1>3, <2>2 DEF FdOf
      <3>. QED BY <2>2, <3>1 DEF FilesRight
    <2>. QED BY <2>1, <2>2
  <1>6. t \in truth
    BY <1>3 DEF Outcome
  <1>7. x = y
    BY <1>2, <1>3, <1>4
  <1>8. y = t \/ (y.file = Unresolved /\ [t EXCEPT !.file = Unresolved] = y)
    <2>. HIDE DEF said, is, op, id, r
    <2>. QED BY <1>5
  <1>. HIDE DEF y, t
  <1>. QED BY <1>6, <1>7, <1>8

LEMMA JobType ==
    ASSUME NEW tr \in Seq(CallRecord), NEW i \in DOMAIN tr
    PROVE  JobAt(tr, i) \in Nat
  <1>. DEFINE marks == {k \in Places(tr, Markers) : k < i}
  <1>1. /\ Len(tr) \in Nat /\ DOMAIN tr = 1 .. Len(tr) /\ i \in Nat
        /\ \A k \in 1 .. Len(tr) : tr[k] \in CallRecord
    BY LenProperties
  <1>2. marks \subseteq 1 .. Len(tr) /\ \A k \in marks : k <= i
    BY <1>1 DEF Places
  <1>3. JobAt(tr, i) = IF marks = {} \/ tr[Latest(marks)].call = "IPC_LEAVE" THEN NoJob
                       ELSE tr[Latest(marks)].job
    BY DEF JobAt
  <1>. HIDE DEF marks
  <1>4. marks # {} => Latest(marks) \in 1 .. Len(tr)
    <2>. SUFFICES ASSUME marks # {} PROVE Latest(marks) \in 1 .. Len(tr)
      OBVIOUS
    <2>1. marks \in SUBSET Nat
      BY <1>1, <1>2
    <2>2. PICK k \in marks : \A m \in marks : m <= k
      BY <1>1, <1>2, <2>1, GreatestNumber
    <2>3. Latest(marks) = k
      BY <2>1, <2>2, LatestIs
    <2>. QED BY <1>2, <2>2, <2>3
  <1>5. marks # {} => tr[Latest(marks)].job \in Nat
    BY <1>1, <1>4 DEF CallRecord
  <1>. QED BY <1>3, <1>5 DEF NoJob

(* The row of a submission, and the batch and the job it was written for. *)
LEMMA SubmissionOf ==
    ASSUME KernelInv, CallsKnown, Joinable(Rows(trace)),
           NEW s \in ToSet(Rows(trace)), s.kind = "sqe", NEW id, s.id = id
    PROVE  /\ (CHOOSE r \in ToSet(Rows(trace)) : r.kind = "sqe" /\ r.id = id) = s
           /\ (CHOOSE r \in Submissions(trace) : r.id = id) = s
           /\ s \in Submissions(trace)
           /\ WitnessOf(trace, s) \in DOMAIN trace
           /\ s \in ToSet(trace[WitnessOf(trace, s)].rows)
  <1>1. Rows(trace) \in Seq(RowRecord)
    BY TraceRows
  <1>2. \A r \in ToSet(Rows(trace)) : r.kind = "sqe" /\ r.id = id => r = s
    BY <1>1, RowsOnce
  <1>3. (CHOOSE r \in ToSet(Rows(trace)) : r.kind = "sqe" /\ r.id = id) = s
    BY <1>2
  <1>4. s \in Submissions(trace)
    BY DEF Submissions
  <1>5. (CHOOSE r \in Submissions(trace) : r.id = id) = s
    BY <1>2, <1>4 DEF Submissions
  <1>6. PICK i \in Places(trace, {"write"}) : s \in ToSet(trace[i].rows)
    BY TraceRows
  <1>7. \E k \in DOMAIN trace[i].rows : trace[i].rows[k] = s
    BY <1>6 DEF ToSet
  <1>8. /\ WitnessOf(trace, s) \in Places(trace, {"write"})
        /\ \E k \in DOMAIN trace[WitnessOf(trace, s)].rows :
              trace[WitnessOf(trace, s)].rows[k] = s
    BY <1>7 DEF WitnessOf
  <1>9. WitnessOf(trace, s) \in DOMAIN trace /\ s \in ToSet(trace[WitnessOf(trace, s)].rows)
    BY <1>8 DEF Places, ToSet
  <1>. QED BY <1>3, <1>4, <1>5, <1>9

LEMMA SharedJobs ==
    ASSUME KernelInv, CallsKnown, JobsRight, mode = "shared", WholeMarkers,
           Joinable(Rows(trace)), NEW s \in ToSet(Rows(trace)), s.kind = "sqe",
           NEW id, s.id = id, NEW j \in 1 .. taken, NEW i \in {1, 2}, id = IdOf(j, i)
    PROVE  SharedOwner(trace)[id] = j
  <1>. DEFINE place == WitnessOf(trace, s)
  <1>0. trace \in Seq(CallRecord) /\ taken \in Nat
    BY DEF KernelInv, RingTypes
  <1>1. /\ (CHOOSE r \in Submissions(trace) : r.id = id) = s /\ s \in Submissions(trace)
        /\ place \in DOMAIN trace /\ s \in ToSet(trace[place].rows)
    BY SubmissionOf
  <1>2. SharedOwner(trace)[id] = JobAt(trace, place)
    BY <1>1 DEF SharedOwner
  <1>. HIDE DEF place
  <1>3. PICK m \in {1, 2} : s.id = IdOf(JobAt(trace, place), m)
    BY <1>1 DEF JobsRight, OwnedRows
  <1>4. JobAt(trace, place) \in Nat
    BY <1>0, <1>1, JobType
  <1>5. j \in Nat /\ IdOf(j, i) = IdOf(JobAt(trace, place), m)
    BY <1>0, <1>3
  <1>. QED BY <1>2, <1>4, <1>5, IdsDiffer

(* Every operation that is reported was performed, if the number of a batch   *)
(* is that of an enter and the owners are the jobs.                           *)
LEMMA ReportsAreTrue ==
    ASSUME KernelInv, CallsKnown, FilesRight, Joinable(Rows(trace)), NEW owner,
           \A s \in ToSet(Rows(trace)) : s.kind = "sqe" =>
              /\ EnterOf(trace, s.batch) \in Enters(trace)
              /\ \A j \in 1 .. taken, i \in {1, 2} : s.id = IdOf(j, i) => owner[s.id] = j,
           NEW x \in Operations(trace, owner)
    PROVE  \E t \in truth : x = t \/ (x.file = Unresolved /\ [t EXCEPT !.file = Unresolved] = x)
  <1>1. PICK o \in Joined(Rows(trace)) :
           x = [id |-> o.id, op |-> o.op, job |-> owner[o.id], result |-> o.result,
                file |-> Resource(trace, o.fd, EnterOf(trace, (CHOOSE r \in ToSet(Rows(trace)) :
                                   r.kind = "sqe" /\ r.id = o.id).batch))]
    BY DEF Operations
  <1>2. Rows(trace) \in Seq(RowRecord)
    BY TraceRows
  <1>3. PICK s \in ToSet(Rows(trace)) : s.kind = "sqe" /\ s.id = o.id
    BY <1>2, JoinedIs
  <1>4. (CHOOSE r \in ToSet(Rows(trace)) : r.kind = "sqe" /\ r.id = o.id) = s
    BY <1>3, SubmissionOf
  <1>. DEFINE place == EnterOf(trace, s.batch)
  <1>5. place \in Enters(trace)
    BY <1>3
  <1>6. x = [id |-> o.id, op |-> o.op, job |-> owner[o.id], result |-> o.result,
             file |-> Resource(trace, o.fd, place)]
    BY <1>1, <1>4
  <1>. HIDE DEF place
  <1>7. \A r \in ToSet(Rows(trace)) : r.kind = "sqe" /\ r.id = o.id =>
           \A j \in 1 .. taken, i \in {1, 2} : r.id = IdOf(j, i) => owner[o.id] = j
    OBVIOUS
  <1>. QED BY <1>5, <1>6, <1>7, ReportIsTrue, SMTT(20)

LEMMA ReportedIds ==
    ASSUME NEW tr, NEW owner
    PROVE  {x.id : x \in Operations(tr, owner)} = {o.id : o \in Joined(Rows(tr))}
  <1>. DEFINE named(o) == [id |-> o.id, op |-> o.op, job |-> owner[o.id], result |-> o.result,
                           file |-> Resource(tr, o.fd, EnterOf(tr, (CHOOSE r \in ToSet(Rows(tr)) :
                                   r.kind = "sqe" /\ r.id = o.id).batch))]
  <1>1. Operations(tr, owner) = {named(o) : o \in Joined(Rows(tr))}
    BY DEF Operations
  <1>2. \A o : named(o).id = o.id
    OBVIOUS
  <1>. HIDE DEF named
  <1>. QED BY <1>1, <1>2

(* A capture of the worker that is accepted. *)
LEMMA SharedReports ==
    ASSUME EvidenceInv, mode = "shared", Accepted
    PROVE  /\ \A x \in SharedOperations(trace) : \E t \in truth :
                 x = t \/ (x.file = Unresolved /\ [t EXCEPT !.file = Unresolved] = x)
           /\ \A t \in truth : \E o \in Joined(Rows(trace)) : o.id = t.id
  <1>0. /\ KernelInv /\ CallsKnown /\ SubmissionsWritten /\ JobsRight /\ FilesRight
        /\ trace \in Seq(CallRecord)
    BY DEF EvidenceInv, KernelInv, RingTypes
  <1>1. /\ WholeMarkers /\ Rows(trace) = sidecar /\ Joinable(Rows(trace))
        /\ {r.batch : r \in ToSet(Rows(trace))} = 1 .. Cardinality(Enters(trace))
    BY DEF Accepted, SharedAccepts
  <1>2. ASSUME NEW s \in ToSet(Rows(trace)), s.kind = "sqe"
        PROVE  /\ EnterOf(trace, s.batch) \in Enters(trace)
               /\ \A j \in 1 .. taken, i \in {1, 2} :
                     s.id = IdOf(j, i) => SharedOwner(trace)[s.id] = j
    <2>1. s.batch \in 1 .. Cardinality(Enters(trace))
      BY <1>1
    <2>2. EnterOf(trace, s.batch) \in Enters(trace)
      BY <1>0, <2>1, EnterAt
    <2>3. ASSUME NEW j \in 1 .. taken, NEW i \in {1, 2}, s.id = IdOf(j, i)
          PROVE  SharedOwner(trace)[s.id] = j
      BY <1>0, <1>1, <1>2, <2>3, SharedJobs
    <2>. QED BY <2>2, <2>3
  <1>3. \A x \in SharedOperations(trace) : \E t \in truth :
           x = t \/ (x.file = Unresolved /\ [t EXCEPT !.file = Unresolved] = x)
    BY <1>0, <1>1, <1>2, ReportsAreTrue DEF SharedOperations
  <1>4. ASSUME NEW t \in truth PROVE \E o \in Joined(Rows(trace)) : o.id = t.id
    <2>1. PICK r \in ToSet(sidecar) : r.kind = "sqe" /\ r.id = t.id
      BY <1>0 DEF SubmissionsWritten
    <2>2. Rows(trace) \in Seq(RowRecord)
      BY <1>0, TraceRows
    <2>. QED BY <1>1, <2>1, <2>2, JoinedAll
  <1>. QED BY <1>3, <1>4

(* A capture of the helper that is accepted. *)
LEMMA HelperReports ==
    ASSUME EvidenceInv, mode = "helper", Accepted
    PROVE  /\ \A x \in HelperOperations(trace) : \E t \in truth :
                 x = t \/ (x.file = Unresolved /\ [t EXCEPT !.file = Unresolved] = x)
           /\ \A t \in truth : \E o \in Joined(Rows(trace)) : o.id = t.id
  <1>0. /\ KernelInv /\ CallsKnown /\ FilesRight /\ trace \in Seq(CallRecord)
        /\ taken \in Nat /\ taken <= 1 /\ Rows(trace) \in Seq(RowRecord)
        /\ \A r \in ToSet(Rows(trace)) : KnownRow(r)
    <2>1. KernelInv /\ CallsKnown /\ FilesRight /\ trace \in Seq(CallRecord)
          /\ taken \in Nat /\ taken <= sent /\ sent = 1
      BY DEF EvidenceInv, KernelInv, RingTypes, HelperKnown
    <2>. QED BY <2>1, TraceRows
  <1>. DEFINE rows == Rows(trace)
              place == EnterOf(trace, 1)
  <1>1. /\ Joinable(rows) /\ Cardinality(Enters(trace)) = 1
        /\ FullBatch(trace[place], Cardinality(Joined(rows)))
    BY DEF Accepted, HelperAccepts
  <1>2. place \in Enters(trace)
    <2>1. 1 \in 1 .. Cardinality(Enters(trace))
      BY <1>1
    <2>. QED BY <1>0, <2>1, EnterAt
  <1>3. \A j \in 1 .. taken : j = 1
    BY <1>0
  <1>4. ASSUME NEW s \in ToSet(rows), s.kind = "sqe"
        PROVE  /\ EnterOf(trace, s.batch) \in Enters(trace)
               /\ \A j \in 1 .. taken, i \in {1, 2} :
                     s.id = IdOf(j, i) => HelperOwner(trace)[s.id] = j
    <2>1. s.batch = 1
      BY <1>0, <1>4 DEF KnownRow
    <2>2. s \in Submissions(trace)
      BY <1>4 DEF Submissions
    <2>3. HelperOwner(trace)[s.id] = 1
      BY <2>2 DEF HelperOwner
    <2>. QED BY <1>2, <1>3, <2>1, <2>3
  <1>5. \A x \in HelperOperations(trace) : \E t \in truth :
           x = t \/ (x.file = Unresolved /\ [t EXCEPT !.file = Unresolved] = x)
    BY <1>0, <1>1, <1>4, ReportsAreTrue DEF HelperOperations
  <1>6. Cardinality(Joined(rows)) = 2
    <2>1. trace[place].call = "enter" /\ trace[place] \in ToSet(trace)
      BY <1>2 DEF Enters, Places, ToSet
    <2>2. KnownCall(trace[place])
      BY <1>0, <2>1 DEF CallsKnown
    <2>3. trace[place].result = "ok" /\ trace[place].count = Cardinality(Joined(rows))
      BY <1>1 DEF FullBatch
    <2>. QED BY <2>1, <2>2, <2>3 DEF KnownCall
  <1>7. ASSUME NEW o \in Joined(rows) PROVE o.id = 1 \/ o.id = 2
    <2>1. PICK s \in ToSet(rows) : s.kind = "sqe" /\ s.id = o.id
      BY <1>0, JoinedIs
    <2>2. PICK j \in 1 .. taken, i \in {1, 2} :
             s = Row("sqe", IdOf(j, i), JobOps[i], FdOf(JobOps[i]), "none", s.batch)
      BY <1>0, <2>1 DEF KnownRow
    <2>3. s.id = IdOf(j, i)
      <3>. DEFINE fd == FdOf(JobOps[i])
                  op == JobOps[i]
                  id == IdOf(j, i)
                  b == s.batch
      <3>1. s = Row("sqe", id, op, fd, "none", b)
        BY <2>2
      <3>. HIDE DEF fd, op, id, b
      <3>2. s.id = id
        BY <3>1 DEF Row
      <3>. QED BY <3>2 DEF id
    <2>4. j = 1
      BY <1>3
    <2>. QED BY <2>1, <2>3, <2>4 DEF IdOf
  <1>8. \A o, q \in Joined(rows) : o.id = q.id => o = q
    BY <1>0, <1>1, JoinedOnce
  <1>9. ASSUME NEW id \in {1, 2} PROVE \E o \in Joined(rows) : o.id = id
    <2>. SUFFICES ASSUME \A o \in Joined(rows) : o.id # id PROVE FALSE
      OBVIOUS
    <2>1. \A o, q \in Joined(rows) : o.id = q.id
      BY <1>7
    <2>2. \A o, q \in Joined(rows) : o = q
      BY <1>8, <2>1
    <2>3. Joined(rows) = {} \/ \E o : Joined(rows) = {o}
      BY <2>2
    <2>4. Cardinality(Joined(rows)) = 0 \/ Cardinality(Joined(rows)) = 1
      BY <2>3, FS_EmptySet, FS_Singleton
    <2>. QED BY <1>6, <2>4
  <1>10. ASSUME NEW t \in truth PROVE \E o \in Joined(rows) : o.id = t.id
    <2>1. PICK j \in 1 .. taken, i \in {1, 2} : t.id = IdOf(j, i)
      BY <1>0 DEF KernelInv, OperationsKnown, Outcome
    <2>2. j = 1
      BY <1>3
    <2>3. t.id \in {1, 2}
      BY <2>1, <2>2 DEF IdOf
    <2>. QED BY <1>9, <2>3
  <1>. QED BY <1>5, <1>10

(* An accepted capture reports the operations that the kernel performed, each *)
(* with its result and its job, and with its file or none, whatever the       *)
(* numbers of jobs, of the jobs of a batch and of the faults.                 *)
THEOREM RingReportsAreRight == RingSpec => []RingOwnersRight
  <1>1. EvidenceInv => RingOwnersRight
    <2>. SUFFICES ASSUME EvidenceInv, Accepted
                  PROVE  /\ {o.id : o \in Reported} = {t.id : t \in truth}
                         /\ \A o \in Reported : \E t \in truth :
                               o = t \/ (o.file = Unresolved /\ [t EXCEPT !.file = Unresolved] = o)
      BY DEF RingOwnersRight
    <2>1. mode = "shared" \/ mode = "helper"
      BY DEF EvidenceInv, KernelInv, RingTypes
    <2>2. /\ \A o \in Reported : \E t \in truth :
                o = t \/ (o.file = Unresolved /\ [t EXCEPT !.file = Unresolved] = o)
          /\ \A t \in truth : \E o \in Joined(Rows(trace)) : o.id = t.id
      BY <2>1, SharedReports, HelperReports DEF Reported
    <2>3. {o.id : o \in Reported} = {o.id : o \in Joined(Rows(trace))}
      BY ReportedIds DEF Reported, SharedOperations, HelperOperations
    <2>4. ASSUME NEW o \in Reported PROVE \E t \in truth : t.id = o.id
      <3>1. PICK t \in truth : o = t \/ (o.file = Unresolved /\ [t EXCEPT !.file = Unresolved] = o)
        BY <2>2
      <3>2. \E j, i, result : t = Outcome(j, i, result)
        BY DEF EvidenceInv, KernelInv, OperationsKnown
      <3>3. [t EXCEPT !.file = Unresolved].id = t.id
        BY <3>2 DEF Outcome
      <3>. QED BY <3>1, <3>3
    <2>. QED BY <2>2, <2>3, <2>4
  <1>. QED BY <1>1, EvidenceAlways, PTL

-----------------------------------------------------------------------------
(* A run in which nothing has gone wrong, and the trace it leaves. The number *)
(* of enters before a place is the batch of the rows that follow it.          *)
Written == ToSet(Rows(trace))
Rank(tr, i) == Cardinality({k \in Enters(tr) : k < i})
Lead(r) == IF r.kind = "sqe" THEN 1 ELSE 0
SameRow(r, s) == r.kind = s.kind /\ r.id = s.id
Unrepeated(rows) == \A a, b \in DOMAIN rows : SameRow(rows[a], rows[b]) => a = b
Answering(rows) == \A c \in DOMAIN rows : rows[c].kind = "cqe" =>
    \E s \in 1 .. c - 1 : rows[s].kind = "sqe" /\ rows[s].id = rows[c].id
SqesOf(rows, n) == {r \in ToSet(rows) : r.kind = "sqe" /\ r.batch = n}

(* Operations of the batches that are over, and completions already written. *)
Old(id) == id <= 2 * (taken - Len(batch))
Shown == IF mode = "shared" /\ at = "draining" THEN Len(seen) - Len(todo)
         ELSE IF at \in {"failed", "succeeded"} /\ todo = <<>> THEN Len(seen) ELSE 0

(* Every call is recorded, with its result, and its rows are in the file. *)
CleanCalls ==
    /\ at # "short"
    /\ \A i \in DOMAIN trace : trace[i].result = "ok"
    /\ WholeMarkers
    /\ mode = "shared" => Rows(trace) = sidecar
    /\ IF \E e \in ToSet(todo) : e.call = "setup" THEN Places(trace, {"setup"}) = {}
       ELSE OneRing(trace)
    /\ \A i \in Places(trace, {"setup"}), k \in DOMAIN trace : trace[k].rows # <<>> => i < k
    /\ mode = "shared" => \A i \in DOMAIN trace :
          trace[i].call = "enter" \/ (\E r \in ToSet(trace[i].rows) : r.kind = "cqe") =>
             JobAt(trace, i) = NoJob

(* A row lies after the enters of the batches before its own, a completion    *)
(* after that of its own batch too.                                           *)
CleanPlaces ==
    /\ \A i \in DOMAIN trace : \A r \in ToSet(trace[i].rows) :
          r.kind \in {"sqe", "cqe"} /\ r.batch \in 1 .. number /\ r.batch = Rank(trace, i) + Lead(r)
    /\ Rank(trace, Len(trace) + 1) = IF at \in {"submitting", "waiting"} THEN number - 1 ELSE number
    /\ \A i, k \in DOMAIN trace : \A r \in ToSet(trace[i].rows), s \in ToSet(trace[k].rows) :
          r.kind = "sqe" /\ s.kind = "cqe" /\ i <= k => r.batch <= s.batch

(* The rows are those of the operations that were prepared and completed. *)
CleanRows ==
    /\ Unrepeated(Rows(trace)) /\ Answering(Rows(trace))
    /\ \A s \in Written : s.kind = "sqe" =>
          IF Old(s.id) THEN at # "gathering" => s.batch < number
          ELSE at # "gathering" /\ s.batch = number
    /\ at = "submitting" => \A r \in Written, i \in DOMAIN todo : \A s \in ToSet(todo[i].rows) :
          r.kind = "sqe" => r.id < s.id
    /\ at # "gathering" => \A id \in BatchIds :
          \/ \E s \in Written : s.kind = "sqe" /\ s.id = id
          \/ \E e \in ToSet(todo) : \E s \in ToSet(e.rows) : s.kind = "sqe" /\ s.id = id
    /\ \A c \in Written : c.kind = "cqe" => Old(c.id) \/ \E p \in 1 .. Shown : seen[p] = c
    /\ at = "waiting" => seen = <<>>
    /\ \A p \in 1 .. Shown : seen[p] \in Written
    /\ \A c \in Written : c.kind = "cqe" =>
          \E s \in Written : s.kind = "sqe" /\ s.id = c.id /\ s.batch = c.batch
    /\ \A s \in Written : s.kind = "sqe" /\ Old(s.id) =>
          \E c \in Written : c.kind = "cqe" /\ c.id = s.id /\ c.batch = s.batch

(* An enter counts the submissions of its batch, and its file is known. *)
CleanEnters ==
    /\ \A e \in Enters(trace) : /\ trace[e].count >= 1
                                /\ trace[e].count = Cardinality(SqesOf(Rows(trace), Rank(trace, e) + 1))
                                /\ Resource(trace, FileFd, e) # Unresolved
    /\ file = NoFile \/ Resource(trace, FileFd, Len(trace) + 1) # Unresolved
    /\ file = NoFile => \E e \in ToSet(todo) : e.call = "open"

(* What has been answered, and where a program that ends well stands. *)
CleanAnswers ==
    /\ mode = "shared" => 1 .. (taken - Len(batch)) \subseteq answered
    /\ exit = "0" => /\ todo = <<>>
                     /\ IF mode = "shared" THEN at = "gathering" /\ batch = <<>>
                        ELSE at = "succeeded" /\ ToSet(batch) \subseteq answered

LEMMA RowsLonger ==
    ASSUME NEW tr \in Seq(CallRecord), NEW e \in CallRecord
    PROVE  /\ Rows(tr) \in Seq(RowRecord) /\ e.rows \in Seq(RowRecord)
           /\ Rows(Append(tr, e)) = Rows(tr) \o e.rows
           /\ ToSet(Rows(Append(tr, e))) = ToSet(Rows(tr)) \cup ToSet(e.rows)
  <1>. DEFINE n == Len(tr)
              new == Append(tr, e)
              f == [i \in DOMAIN tr |-> tr[i].rows]
              g == [i \in DOMAIN new |-> new[i].rows]
  <1>1. /\ n \in Nat /\ DOMAIN tr = 1 .. n /\ DOMAIN new = 1 .. n + 1
        /\ new[n + 1] = e /\ \A i \in 1 .. n : new[i] = tr[i]
        /\ \A i \in 1 .. n : tr[i] \in CallRecord
    BY TraceLonger, LenProperties
  <1>2. Rows(tr) = FlattenSeq(f) /\ Rows(new) = FlattenSeq(g)
    BY DEF Rows
  <1>3. \A c \in CallRecord : c.rows \in Seq(RowRecord)
    BY DEF CallRecord
  <1>. HIDE DEF n, new
  <1>4. f \in Seq(Seq(RowRecord)) /\ Len(f) = n
    BY <1>1, <1>3
  <1>5. g \in Seq(Seq(RowRecord)) /\ Len(g) = n + 1
    <2>1. ASSUME NEW i \in 1 .. n + 1 PROVE new[i].rows \in Seq(RowRecord)
      <3>1. i \in 1 .. n \/ i = n + 1
        BY <1>1
      <3>2. new[i] \in CallRecord
        BY <1>1, <3>1
      <3>. QED BY <1>3, <3>2
    <2>. QED BY <1>1, <2>1
  <1>6. \A i \in 1 .. n : g[i] = f[i]
    BY <1>1
  <1>7. g[n + 1] = e.rows
    BY <1>1
  <1>. HIDE DEF f, g
  <1>8. g = Append(f, e.rows)
    <2>1. /\ Append(f, e.rows) \in Seq(Seq(RowRecord)) /\ Len(Append(f, e.rows)) = n + 1
          /\ \A i \in 1 .. n : Append(f, e.rows)[i] = f[i]
          /\ Append(f, e.rows)[n + 1] = e.rows
      BY <1>3, <1>4, AppendProperties
    <2>2. \A i \in 1 .. n + 1 : i \in 1 .. n \/ i = n + 1
      BY <1>1
    <2>3. \A i \in 1 .. n + 1 : g[i] = Append(f, e.rows)[i]
      BY <1>6, <1>7, <2>1, <2>2
    <2>. QED BY <1>5, <2>1, <2>3, SeqEqual
  <1>9. FlattenSeq(g) = FlattenSeq(f) \o e.rows
    BY <1>3, <1>4, <1>8, FlattenAppend
  <1>10. Rows(tr) \in Seq(RowRecord) /\ e.rows \in Seq(RowRecord)
    BY <1>3, RowsAre
  <1>. QED BY <1>2, <1>9, <1>10, ConcatSet DEF new

(* The number of enters before a place. *)
LEMMA EntersFinite ==
    ASSUME NEW tr \in Seq(CallRecord)
    PROVE  /\ IsFiniteSet(Enters(tr)) /\ Enters(tr) \subseteq 1 .. Len(tr) /\ Len(tr) \in Nat
           /\ \A i : /\ IsFiniteSet({k \in Enters(tr) : k < i})
                     /\ IsFiniteSet({k \in Enters(tr) : k <= i})
                     /\ Rank(tr, i) \in Nat
  <1>1. Enters(tr) \subseteq 1 .. Len(tr) /\ Len(tr) \in Nat
    BY LenProperties DEF Enters, Places
  <1>2. IsFiniteSet(Enters(tr))
    <2>1. IsFiniteSet(1 .. Len(tr))
      BY <1>1, FS_Interval
    <2>. QED BY <1>1, <2>1, FS_Subset
  <1>. SUFFICES ASSUME NEW i
                PROVE  /\ IsFiniteSet({k \in Enters(tr) : k < i})
                       /\ IsFiniteSet({k \in Enters(tr) : k <= i})
                       /\ Rank(tr, i) \in Nat
    BY <1>1, <1>2
  <1>3. IsFiniteSet({k \in Enters(tr) : k < i})
    BY <1>2, FS_Subset
  <1>4. IsFiniteSet({k \in Enters(tr) : k <= i})
    BY <1>2, FS_Subset
  <1>. QED BY <1>3, <1>4, FS_CardinalityType DEF Rank

LEMMA RankGrows ==
    ASSUME NEW tr \in Seq(CallRecord)
    PROVE  /\ \A p \in Enters(tr) :
                /\ Cardinality({k \in Enters(tr) : k <= p}) = Rank(tr, p) + 1
                /\ \A i \in Nat : p < i => Rank(tr, p) + 1 <= Rank(tr, i)
           /\ \A i, k \in Nat : i <= k => Rank(tr, i) <= Rank(tr, k)
           /\ Rank(tr, Len(tr) + 1) = Cardinality(Enters(tr))
  <1>. DEFINE Before(i) == {k \in Enters(tr) : k < i}
              Upto(i) == {k \in Enters(tr) : k <= i}
  <1>1. Enters(tr) \subseteq 1 .. Len(tr) /\ Len(tr) \in Nat
    BY EntersFinite
  <1>2. \A i : IsFiniteSet(Before(i)) /\ IsFiniteSet(Upto(i))
    BY EntersFinite
  <1>3. \A i : Rank(tr, i) = Cardinality(Before(i))
    BY DEF Rank
  <1>4. ASSUME NEW p \in Enters(tr) PROVE Cardinality(Upto(p)) = Cardinality(Before(p)) + 1
    <2>1. p \in Nat /\ \A k \in Enters(tr) : k \in Nat
      BY <1>1
    <2>2. Upto(p) = Before(p) \cup {p} /\ p \notin Before(p)
      <3>1. \A k \in Enters(tr) : k <= p <=> k < p \/ k = p
        BY <2>1
      <3>2. ~(p < p)
        BY <2>1
      <3>. QED BY <3>1, <3>2
    <2>. HIDE DEF Before, Upto
    <2>. QED BY <1>2, <2>2, FS_AddElement
  <1>5. ASSUME NEW p \in Enters(tr), NEW i \in Nat, p < i
        PROVE  Cardinality(Upto(p)) <= Cardinality(Before(i))
    <2>1. Upto(p) \subseteq Before(i)
      BY <1>1, <1>5
    <2>. HIDE DEF Before, Upto
    <2>. QED BY <1>2, <2>1, FS_Subset
  <1>6. ASSUME NEW i \in Nat, NEW k \in Nat, i <= k
        PROVE  Cardinality(Before(i)) <= Cardinality(Before(k))
    <2>1. Before(i) \subseteq Before(k)
      BY <1>1, <1>6
    <2>. HIDE DEF Before, Upto
    <2>. QED BY <1>2, <2>1, FS_Subset
  <1>7. Before(Len(tr) + 1) = Enters(tr)
    BY <1>1
  <1>. HIDE DEF Before
  <1>8. Rank(tr, Len(tr) + 1) = Cardinality(Enters(tr))
    BY <1>3, <1>7
  <1>. QED BY <1>3, <1>4, <1>5, <1>6, <1>8

LEMMA RankLonger ==
    ASSUME NEW tr \in Seq(CallRecord), NEW e \in CallRecord, NEW n, n = Len(tr)
    PROVE  /\ \A i \in 1 .. n + 1 : Rank(Append(tr, e), i) = Rank(tr, i)
           /\ Rank(Append(tr, e), n + 2) = Rank(tr, n + 1) + (IF e.call = "enter" THEN 1 ELSE 0)
  <1>. DEFINE new == Append(tr, e)
  <1>1. /\ n \in Nat /\ Enters(tr) \subseteq 1 .. n
        /\ Enters(new) = IF e.call = "enter" THEN Enters(tr) \cup {n + 1} ELSE Enters(tr)
    BY EntersLonger, EntersFinite
  <1>. HIDE DEF new
  <1>2. ASSUME NEW i \in 1 .. n + 1 PROVE Rank(new, i) = Rank(tr, i)
    <2>1. {k \in Enters(new) : k < i} = {k \in Enters(tr) : k < i}
      <3>1. ~(n + 1 < i)
        BY <1>1
      <3>. QED BY <1>1, <3>1
    <2>. QED BY <2>1 DEF Rank
  <1>3. {k \in Enters(tr) : k < n + 1} = Enters(tr)
    BY <1>1
  <1>4. {k \in Enters(new) : k < n + 2} = Enters(new)
    BY <1>1
  <1>5. Rank(tr, n + 1) = Cardinality(Enters(tr)) /\ Rank(new, n + 2) = Cardinality(Enters(new))
    BY <1>3, <1>4 DEF Rank
  <1>6. IsFiniteSet(Enters(tr)) /\ Cardinality(Enters(tr)) \in Nat
    BY EntersFinite, FS_CardinalityType
  <1>7. n + 1 \notin Enters(tr)
    BY <1>1
  <1>8. Cardinality(Enters(tr) \cup {n + 1}) = Cardinality(Enters(tr)) + 1
    BY <1>6, <1>7, FS_AddElement
  <1>. QED BY <1>1, <1>2, <1>5, <1>6, <1>8 DEF new

-----------------------------------------------------------------------------
(* Rows after rows. *)
LEMMA ConcatParts ==
    ASSUME NEW S, NEW a \in Seq(S), NEW b \in Seq(S), NEW c, c = a \o b
    PROVE  /\ DOMAIN a = 1 .. Len(a) /\ DOMAIN b = 1 .. Len(b) /\ Len(a) \in Nat /\ Len(b) \in Nat
           /\ DOMAIN c = 1 .. Len(a) + Len(b)
           /\ \A q \in 1 .. Len(a) : q \in DOMAIN c /\ c[q] = a[q]
           /\ \A q \in DOMAIN c : \/ q \in 1 .. Len(a) /\ c[q] = a[q]
                                  \/ \E m \in 1 .. Len(b) : q = Len(a) + m /\ c[q] = b[m]
  <1>1. /\ Len(a) \in Nat /\ Len(b) \in Nat /\ DOMAIN a = 1 .. Len(a) /\ DOMAIN b = 1 .. Len(b)
        /\ DOMAIN c = 1 .. Len(a) + Len(b)
        /\ \A q \in 1 .. Len(a) + Len(b) : c[q] = IF q <= Len(a) THEN a[q] ELSE b[q - Len(a)]
    BY ConcatProperties, LenProperties
  <1>2. ASSUME NEW q \in DOMAIN c
        PROVE  \/ q \in 1 .. Len(a) /\ c[q] = a[q]
               \/ \E m \in 1 .. Len(b) : q = Len(a) + m /\ c[q] = b[m]
    <2>1. CASE q <= Len(a)
      BY <1>1, <1>2, <2>1
    <2>2. CASE ~(q <= Len(a))
      <3>1. q - Len(a) \in 1 .. Len(b) /\ q = Len(a) + (q - Len(a))
        BY <1>1, <2>2
      <3>2. c[q] = b[q - Len(a)]
        BY <1>1, <2>2
      <3>. QED BY <3>1, <3>2
    <2>. QED BY <2>1, <2>2
  <1>3. \A q \in 1 .. Len(a) : q \in DOMAIN c /\ c[q] = a[q]
    BY <1>1
  <1>. QED BY <1>1, <1>2, <1>3

LEMMA ConcatUnrepeated ==
    ASSUME NEW a \in Seq(RowRecord), NEW b \in Seq(RowRecord), Unrepeated(a), Unrepeated(b),
           \A r \in ToSet(a), s \in ToSet(b) : ~SameRow(r, s)
    PROVE  Unrepeated(a \o b)
  <1>. DEFINE c == a \o b
  <1>1. /\ DOMAIN a = 1 .. Len(a) /\ DOMAIN b = 1 .. Len(b)
        /\ \A q \in DOMAIN c : \/ q \in 1 .. Len(a) /\ c[q] = a[q]
                               \/ \E m \in 1 .. Len(b) : q = Len(a) + m /\ c[q] = b[m]
    BY ConcatParts
  <1>2. \A q \in DOMAIN a, m \in DOMAIN b : ~SameRow(a[q], b[m]) /\ ~SameRow(b[m], a[q])
    BY DEF ToSet, SameRow
  <1>. HIDE DEF c
  <1>3. ASSUME NEW x \in DOMAIN c, NEW y \in DOMAIN c, SameRow(c[x], c[y])
        PROVE  x = y
    <2>1. CASE x \in 1 .. Len(a) /\ c[x] = a[x]
      <3>1. CASE y \in 1 .. Len(a) /\ c[y] = a[y]
        BY <1>1, <1>3, <2>1, <3>1 DEF Unrepeated
      <3>2. CASE \E m \in 1 .. Len(b) : y = Len(a) + m /\ c[y] = b[m]
        BY <1>1, <1>2, <1>3, <2>1, <3>2
      <3>. QED BY <1>1, <3>1, <3>2
    <2>2. CASE \E m \in 1 .. Len(b) : x = Len(a) + m /\ c[x] = b[m]
      <3>1. CASE y \in 1 .. Len(a) /\ c[y] = a[y]
        BY <1>1, <1>2, <1>3, <2>2, <3>1
      <3>2. CASE \E m \in 1 .. Len(b) : y = Len(a) + m /\ c[y] = b[m]
        BY <1>1, <1>3, <2>2, <3>2 DEF Unrepeated
      <3>. QED BY <1>1, <3>1, <3>2
    <2>. QED BY <1>1, <2>1, <2>2
  <1>. QED BY <1>3 DEF Unrepeated, c

LEMMA ConcatAnswering ==
    ASSUME NEW a \in Seq(RowRecord), NEW b \in Seq(RowRecord), Answering(a),
           \A c \in ToSet(b) : c.kind = "cqe" =>
              \E s \in ToSet(a) : s.kind = "sqe" /\ s.id = c.id
    PROVE  Answering(a \o b)
  <1>. DEFINE w == a \o b
  <1>0. w = a \o b
    OBVIOUS
  <1>. HIDE DEF w
  <1>1. /\ DOMAIN a = 1 .. Len(a) /\ DOMAIN b = 1 .. Len(b) /\ Len(a) \in Nat /\ Len(b) \in Nat
        /\ \A q \in 1 .. Len(a) : q \in DOMAIN w /\ w[q] = a[q]
        /\ \A q \in DOMAIN w : \/ q \in 1 .. Len(a) /\ w[q] = a[q]
                               \/ \E m \in 1 .. Len(b) : q = Len(a) + m /\ w[q] = b[m]
    BY <1>0, ConcatParts
  <1>2. ASSUME NEW c \in DOMAIN w, w[c].kind = "cqe"
        PROVE  \E s \in 1 .. c - 1 : w[s].kind = "sqe" /\ w[s].id = w[c].id
    <2>1. CASE c \in 1 .. Len(a) /\ w[c] = a[c]
      <3>1. PICK s \in 1 .. c - 1 : a[s].kind = "sqe" /\ a[s].id = a[c].id
        BY <1>1, <1>2, <2>1 DEF Answering
      <3>2. s \in 1 .. Len(a)
        BY <1>1, <2>1
      <3>. QED BY <1>1, <2>1, <3>1, <3>2
    <2>2. CASE \E m \in 1 .. Len(b) : c = Len(a) + m /\ w[c] = b[m]
      <3>1. PICK m \in 1 .. Len(b) : c = Len(a) + m /\ w[c] = b[m]
        BY <2>2
      <3>2. b[m] \in ToSet(b)
        BY <1>1 DEF ToSet
      <3>3. PICK r \in ToSet(a) : r.kind = "sqe" /\ r.id = b[m].id
        BY <1>2, <3>1, <3>2
      <3>4. PICK s \in DOMAIN a : a[s] = r
        BY DEF ToSet
      <3>5. s \in 1 .. c - 1 /\ w[s] = r
        BY <1>1, <3>1, <3>4
      <3>. QED BY <3>1, <3>3, <3>5
    <2>. QED BY <1>1, <2>1, <2>2
  <1>. QED BY <1>2 DEF Answering, w

(* As many records as identities. *)
LEMMA CountIds ==
    ASSUME NEW S, NEW T, IsFiniteSet(T), \A s \in S : s.id \in T,
           \A s, r \in S : s.id = r.id => s = r, \A t \in T : \E s \in S : s.id = t
    PROVE  IsFiniteSet(S) /\ Cardinality(S) = Cardinality(T)
  <1>. DEFINE f == [t \in T |-> CHOOSE s \in S : s.id = t]
  <1>1. \A t \in T : f[t] \in S /\ f[t].id = t
    OBVIOUS
  <1>2. \A s \in S : f[s.id] = s
    BY <1>1
  <1>3. f \in Bijection(T, S)
    <2>. HIDE DEF f
    <2>1. f \in [T -> S]
      BY <1>1 DEF f
    <2>2. \A x, y \in T : f[x] = f[y] => x = y
      BY <1>1
    <2>3. \A s \in S : \E t \in T : f[t] = s
      BY <1>2
    <2>. QED BY <2>1, <2>2, <2>3 DEF Bijection, Injection, Surjection, IsInjective
  <1>4. ExistsBijection(T, S)
    BY <1>3 DEF ExistsBijection
  <1>. QED BY <1>4, FS_Bijection

-----------------------------------------------------------------------------
(* The row that a call of a plan writes, and the submissions of a batch. *)
LEMMA PlanRow ==
    ASSUME RingTypes, BatchKnown, HelperKnown, batch # <<>>, NEW n \in Nat,
           mode = "helper" => n = 1, NEW p \in 1 .. Len(PlanOf(n))
    PROVE  /\ PlanOf(n)[p].call # "setup"
           /\ Unrepeated(PlanOf(n)[p].rows)
           /\ \A r \in ToSet(PlanOf(n)[p].rows) : \E k \in DOMAIN batch, i \in {1, 2} :
                 /\ r = SqeRows(k, n)[i]
                 /\ IF mode = "shared" THEN p = 4 * (k - 1) + i + 1 ELSE p = 1
  <1>. DEFINE plan == PlanOf(n)
  <1>0. /\ Len(batch) \in Nat /\ Len(batch) # 0 /\ DOMAIN batch = 1 .. Len(batch)
        /\ mode \in {"shared", "helper"}
    BY LenProperties, EmptySeq DEF BatchKnown, RingTypes
  <1>1. /\ plan[Len(plan)] = Enter /\ Len(plan) \in 1 .. Len(plan)
        /\ mode = "shared" => /\ Len(plan) = 4 * Len(batch) + 1
                              /\ \A k \in DOMAIN batch, m \in 1 .. 4 :
                                    plan[4 * (k - 1) + m] = Block(k, n)[m]
        /\ mode = "helper" =>
             /\ Len(plan) = IF replaces THEN 4 ELSE 2
             /\ plan[1] = WriteOf(SqeRows(1, 1))
             /\ replaces => /\ plan[2] = [Call("close") EXCEPT !.fd = FileFd]
                            /\ plan[3] = [Call("open") EXCEPT !.fd = FileFd, !.file = "replacement"]
    BY PlanIs
  <1>2. ToSet(<<>>) = {} /\ Unrepeated(<<>>)
    BY NoCalls DEF Unrepeated
  <1>3. Enter.call = "enter" /\ Enter.rows = <<>>
    BY EnterIs
  <1>. DEFINE Fits(c) == /\ c.call # "setup" /\ Unrepeated(c.rows)
                         /\ \A r \in ToSet(c.rows) : \E k \in DOMAIN batch, i \in {1, 2} :
                               /\ r = SqeRows(k, n)[i]
                               /\ IF mode = "shared" THEN p = 4 * (k - 1) + i + 1 ELSE p = 1
  <1>4. ASSUME NEW c, c.rows = <<>>, c.call # "setup"
        PROVE  Fits(c)
    BY <1>2, <1>4
  <1>. SUFFICES Fits(plan[p])
    OBVIOUS
  <1>5. CASE p = Len(plan)
    BY <1>1, <1>3, <1>4, <1>5
  <1>. HIDE DEF plan
  <1>6. CASE mode = "shared" /\ p # Len(plan)
    <2>1. p \in 1 .. 4 * Len(batch)
      BY <1>0, <1>1, <1>6 DEF plan
    <2>2. PICK k \in 1 .. Len(batch), m \in 1 .. 4 : p = 4 * (k - 1) + m
      BY <1>0, <2>1, PositionIs, Zenon
    <2>3. plan[p] = Block(k, n)[m]
      <3>1. k \in DOMAIN batch /\ plan[p] = plan[4 * (k - 1) + m]
        BY <1>0, <2>2
      <3>. QED BY <1>1, <1>6, <3>1, Zenon
    <2>4. ASSUME NEW kind \in {"IPC_ENTER", "IPC_LEAVE"}
          PROVE  Fits(MarkerOf(kind, batch[k]))
      <3>1. batch[k] \in Nat
        BY <1>0, IdsOfBatch
      <3>2. MarkerOf(kind, batch[k]).rows = <<>> /\ MarkerOf(kind, batch[k]).call = kind
        BY <3>1, CallKinds
      <3>. HIDE DEF Fits
      <3>. QED BY <1>4, <3>2
    <2>5. ASSUME NEW i \in {1, 2}, m = i + 1
          PROVE  Fits(WriteOf(<<SqeRows(k, n)[i]>>))
      <3>. DEFINE row == SqeRows(k, n)[i]
      <3>1. row \in RowRecord
        BY <1>0, SubmissionRow
      <3>2. row = SqeRows(k, n)[i] /\ p = 4 * (k - 1) + i + 1 /\ k \in DOMAIN batch
        BY <1>0, <2>2, <2>5
      <3>. HIDE DEF row
      <3>3. <<row>> \in Seq(RowRecord)
        BY <3>1
      <3>4. WriteOf(<<row>>).rows = <<row>> /\ WriteOf(<<row>>).call = "write"
        BY <3>3, CallKinds
      <3>5. Unrepeated(<<row>>)
        BY DEF Unrepeated
      <3>6. \A r \in ToSet(<<row>>) : r = row
        BY OneRow
      <3>. DEFINE c == WriteOf(<<row>>)
      <3>. HIDE DEF c
      <3>7. c.call # "setup" /\ Unrepeated(c.rows) /\ \A r \in ToSet(c.rows) : r = row
        BY <3>4, <3>5, <3>6 DEF c
      <3>8. Fits(c)
        BY <1>6, <3>2, <3>7
      <3>. HIDE DEF Fits
      <3>. QED BY <3>8 DEF c, row
    <2>. HIDE DEF Fits
    <2>6. m = 1 \/ m = 1 + 1 \/ m = 2 + 1 \/ m = 4
      OBVIOUS
    <2>. QED BY <2>3, <2>4, <2>5, <2>6 DEF Block
  <1>7. CASE mode = "helper" /\ p # Len(plan)
    <2>. DEFINE rows == SqeRows(1, 1)
                close == [Call("close") EXCEPT !.fd = FileFd]
                open == [Call("open") EXCEPT !.fd = FileFd, !.file = "replacement"]
                write == WriteOf(rows)
    <2>1. /\ rows \in Seq(RowRecord) /\ Len(rows) = 2
          /\ write.call = "write" /\ write.rows = rows
          /\ close.call = "close" /\ close.rows = <<>>
          /\ open.call = "open" /\ open.rows = <<>>
      BY HelperPlan
    <2>2. Fits(close) /\ Fits(open)
      <3>. HIDE DEF Fits, close, open
      <3>. QED BY <1>4, <2>1
    <2>3. 1 \in DOMAIN batch /\ n = 1
      BY <1>0, <1>7
    <2>4. DOMAIN rows = {1, 2} /\ \A i \in {1, 2} : rows[i] = SqeRows(1, n)[i]
      BY <2>3 DEF SqeRows, JobOps
    <2>5. batch[1] \in Nat
      BY <2>3, IdsOfBatch
    <2>6. \A i \in {1, 2} : rows[i].id = IdOf(batch[1], i)
      <3>1. \A i \in {1, 2} : SqeRows(1, n)[i].id = IdOf(batch[1], i)
        BY <2>3, SubmissionRow
      <3>. QED BY <2>4, <3>1
    <2>. HIDE DEF rows, close, open, write
    <2>7. Unrepeated(rows)
      BY <2>4, <2>5, <2>6, IdsDiffer DEF Unrepeated, SameRow
    <2>8. \A r \in ToSet(rows) : \E i \in {1, 2} : r = SqeRows(1, n)[i]
      BY <2>4 DEF ToSet
    <2>9. p = 1 => Fits(write)
      <3>1. write.call # "setup" /\ Unrepeated(write.rows)
        BY <2>1, <2>7
      <3>2. p = 1 => \A r \in ToSet(write.rows) : \E k \in DOMAIN batch, i \in {1, 2} :
                        r = SqeRows(k, n)[i] /\ mode # "shared" /\ p = 1
        BY <1>7, <2>1, <2>3, <2>8
      <3>. QED BY <3>1, <3>2
    <2>10. /\ plan[1] = write /\ Len(plan) = IF replaces THEN 4 ELSE 2
           /\ replaces => plan[2] = close /\ plan[3] = open
      BY <1>1, <1>7 DEF write, rows, close, open
    <2>11. p = 1 \/ (replaces /\ (p = 2 \/ p = 3))
      BY <1>7, <2>10 DEF plan
    <2>. HIDE DEF Fits
    <2>. QED BY <2>2, <2>9, <2>10, <2>11
  <1>. QED BY <1>0, <1>5, <1>6, <1>7

LEMMA PlanRows ==
    ASSUME RingTypes, BatchKnown, HelperKnown, batch # <<>>, NEW n \in Nat,
           mode = "helper" => n = 1
    PROVE  /\ \A p \in 1 .. Len(PlanOf(n)) : \A r \in ToSet(PlanOf(n)[p].rows) :
                 r.kind = "sqe" /\ r.batch = n /\ r.id \in BatchIds
           /\ \A p, q \in 1 .. Len(PlanOf(n)) :
                 \A r \in ToSet(PlanOf(n)[p].rows), s \in ToSet(PlanOf(n)[q].rows) :
                    p < q => r.id < s.id
           /\ \A id \in BatchIds : \E p \in 1 .. Len(PlanOf(n)) :
                 \E r \in ToSet(PlanOf(n)[p].rows) : r.kind = "sqe" /\ r.id = id
  <1>. DEFINE plan == PlanOf(n)
  <1>0. /\ Len(batch) \in Nat /\ Len(batch) # 0 /\ DOMAIN batch = 1 .. Len(batch)
        /\ mode \in {"shared", "helper"}
        /\ \A k \in DOMAIN batch : batch[k] = taken - Len(batch) + k /\ taken \in Nat
    BY LenProperties, EmptySeq DEF BatchKnown, RingTypes
  <1>1. ASSUME NEW k \in DOMAIN batch, NEW i \in {1, 2}
        PROVE  /\ SqeRows(k, n)[i].kind = "sqe" /\ SqeRows(k, n)[i].id = IdOf(batch[k], i)
               /\ SqeRows(k, n)[i].batch = n /\ IdOf(batch[k], i) \in BatchIds
               /\ IdOf(batch[k], i) \in Nat /\ batch[k] \in Nat
    BY SubmissionRow, IdsOfBatch
  <1>2. \A p \in 1 .. Len(plan) : \A r \in ToSet(plan[p].rows) :
           \E k \in DOMAIN batch, i \in {1, 2} :
              /\ r = SqeRows(k, n)[i]
              /\ IF mode = "shared" THEN p = 4 * (k - 1) + i + 1 ELSE p = 1
    BY PlanRow
  <1>. HIDE DEF plan
  <1>3. ASSUME NEW p \in 1 .. Len(plan), NEW r \in ToSet(plan[p].rows)
        PROVE  r.kind = "sqe" /\ r.batch = n /\ r.id \in BatchIds
    <2>1. PICK k \in DOMAIN batch, i \in {1, 2} :
             /\ r = SqeRows(k, n)[i]
             /\ IF mode = "shared" THEN p = 4 * (k - 1) + i + 1 ELSE p = 1
      BY <1>2
    <2>. QED BY <1>1, <2>1
  <1>4. ASSUME NEW p \in 1 .. Len(plan), NEW q \in 1 .. Len(plan),
               NEW r \in ToSet(plan[p].rows), NEW s \in ToSet(plan[q].rows), p < q
        PROVE  r.id < s.id
    <2>1. PICK k \in DOMAIN batch, i \in {1, 2} :
             /\ r = SqeRows(k, n)[i]
             /\ IF mode = "shared" THEN p = 4 * (k - 1) + i + 1 ELSE p = 1
      BY <1>2
    <2>2. PICK l \in DOMAIN batch, m \in {1, 2} :
             /\ s = SqeRows(l, n)[m]
             /\ IF mode = "shared" THEN q = 4 * (l - 1) + m + 1 ELSE q = 1
      BY <1>2
    <2>3. p = 4 * (k - 1) + i + 1 /\ q = 4 * (l - 1) + m + 1
      BY <1>4, <2>1, <2>2
    <2>4. r.id = IdOf(batch[k], i) /\ s.id = IdOf(batch[l], m)
      BY <1>1, <2>1, <2>2
    <2>5. k \in Nat /\ l \in Nat /\ (k < l \/ (k = l /\ i < m))
      <3>1. k \in Nat /\ l \in Nat
        BY <1>0
      <3>2. 4 * (k - 1) + i + 1 < 4 * (l - 1) + m + 1
        BY <1>4, <2>3
      <3>3. \A a, b \in Nat : \A c, d \in {1, 2} :
               4 * (a - 1) + c + 1 < 4 * (b - 1) + d + 1 => a < b \/ (a = b /\ c < d)
        OBVIOUS
      <3>. QED BY <3>1, <3>2, <3>3, Zenon
    <2>6. IdOf(batch[k], i) < IdOf(batch[l], m)
      <3>. DEFINE x == batch[k]
                  y == batch[l]
      <3>1. x = taken - Len(batch) + k /\ y = taken - Len(batch) + l
        BY <1>0
      <3>2. x \in Nat /\ y \in Nat
        BY <1>1
      <3>. HIDE DEF x, y
      <3>3. x < y \/ (x = y /\ i < m)
        <4>1. taken \in Nat /\ Len(batch) \in Nat
          BY <1>0
        <4>. QED BY <2>5, <3>1, <4>1
      <3>4. IdOf(x, i) < IdOf(y, m)
        <4>1. \A a, b \in Nat : \A c, d \in {1, 2} :
                 (a < b \/ (a = b /\ c < d)) => 2 * (a - 1) + c < 2 * (b - 1) + d
          OBVIOUS
        <4>. QED BY <3>2, <3>3, <4>1 DEF IdOf
      <3>. QED BY <3>4 DEF x, y
    <2>. QED BY <2>4, <2>6
  <1>5. ASSUME NEW id \in BatchIds
        PROVE  \E p \in 1 .. Len(plan) :
                  \E r \in ToSet(plan[p].rows) : r.kind = "sqe" /\ r.id = id
    <2>1. CASE mode = "shared"
      BY <2>1, PlanKnown DEF plan
    <2>2. CASE mode = "helper"
      <3>1. PICK k \in DOMAIN batch, i \in {1, 2} : id = IdOf(batch[k], i)
        BY BatchIdsAre
      <3>2. k = 1
        BY <1>0, <2>2 DEF HelperKnown, RingTypes
      <3>. DEFINE rows == SqeRows(1, 1)
      <3>3. rows \in Seq(RowRecord) /\ WriteOf(rows).rows = rows
        BY HelperPlan
      <3>4. plan[1] = WriteOf(rows) /\ 1 \in 1 .. Len(plan)
        <4>1. plan[1] = WriteOf(SqeRows(1, 1)) /\ Len(plan) \in 1 .. Len(plan)
          BY <2>2, PlanIs DEF plan
        <4>. QED BY <4>1
      <3>5. DOMAIN rows = {1, 2} /\ n = 1
        BY <2>2 DEF SqeRows, JobOps
      <3>6. rows[i].kind = "sqe" /\ rows[i].id = id
        BY <1>1, <3>1, <3>2, <3>5
      <3>. HIDE DEF rows
      <3>7. rows[i] \in ToSet(plan[1].rows)
        BY <3>3, <3>4, <3>5 DEF ToSet
      <3>. QED BY <3>4, <3>6, <3>7
    <2>. QED BY <1>0, <2>1, <2>2
  <1>. QED BY <1>3, <1>4, <1>5 DEF plan

-----------------------------------------------------------------------------
(* The next call, before the batch is entered and after it has returned. *)
LEMMA NextSubmission ==
    ASSUME KernelInv, todo # <<>>, at = "submitting", NEW e, e = Head(todo)
    PROVE  /\ e.call # "setup" /\ Unrepeated(e.rows)
           /\ \A r \in ToSet(e.rows) : r.kind = "sqe" /\ r.batch = number /\ r.id \in BatchIds
           /\ \A i \in DOMAIN Tail(todo) :
                 \A r \in ToSet(e.rows), s \in ToSet(Tail(todo)[i].rows) : r.id < s.id
  <1>0. RingTypes /\ BatchKnown /\ HelperKnown /\ TodoKnown /\ number \in Nat
    BY DEF KernelInv, RingTypes
  <1>1. batch # <<>> /\ (mode = "helper" => number = 1)
    BY <1>0 DEF BatchKnown, HelperKnown
  <1>2. /\ Made \in 0 .. Len(Plan) - 1 /\ e = Plan[Made + 1]
        /\ Len(Plan) \in Nat /\ Len(todo) = Len(Plan) - Made
        /\ \A i \in 1 .. Len(todo) - 1 : Tail(todo)[i] = Plan[Made + 1 + i]
        /\ Len(Tail(todo)) = Len(todo) - 1 /\ Tail(todo) \in Seq(CallRecord)
    BY <1>0, HeadIs
  <1>3. Made + 1 \in 1 .. Len(Plan)
    BY <1>2
  <1>4. /\ Plan[Made + 1].call # "setup" /\ Unrepeated(Plan[Made + 1].rows)
    BY <1>0, <1>1, <1>3, PlanRow DEF Plan
  <1>5. /\ \A p \in 1 .. Len(Plan) : \A r \in ToSet(Plan[p].rows) :
              r.kind = "sqe" /\ r.batch = number /\ r.id \in BatchIds
        /\ \A p, q \in 1 .. Len(Plan) :
              \A r \in ToSet(Plan[p].rows), s \in ToSet(Plan[q].rows) : p < q => r.id < s.id
    BY <1>0, <1>1, PlanRows DEF Plan
  <1>6. ASSUME NEW i \in DOMAIN Tail(todo), NEW r \in ToSet(e.rows),
               NEW s \in ToSet(Tail(todo)[i].rows)
        PROVE  r.id < s.id
    <2>1. i \in 1 .. Len(todo) - 1
      BY <1>2, LenProperties
    <2>2. Made + 1 + i \in 1 .. Len(Plan) /\ Made + 1 < Made + 1 + i
      BY <1>2, <2>1
    <2>. QED BY <1>2, <1>3, <1>5, <2>1, <2>2
  <1>. QED BY <1>2, <1>3, <1>4, <1>5, <1>6

LEMMA NextCompletion ==
    ASSUME KernelInv, todo # <<>>, at \in {"draining", "failed", "succeeded"}, NEW e, e = Head(todo)
    PROVE  /\ e.call = "write" /\ Tail(todo) = <<>> /\ Unrepeated(e.rows)
           /\ Shown \in Nat /\ Shown <= Len(seen) /\ Len(seen) \in Nat /\ DOMAIN seen = 1 .. Len(seen)
           /\ \A r : r \in ToSet(e.rows) <=> \E p \in 1 .. Len(seen) : Shown < p /\ r = seen[p]
           /\ \A p \in 1 .. Len(seen) : /\ seen[p].kind = "cqe" /\ seen[p].batch = number
                                        /\ seen[p].id \in BatchIds
           /\ \A p, q \in 1 .. Len(seen) : seen[p].id = seen[q].id => p = q
           /\ ToSet(Tail(todo)) = {} /\ ToSet(todo) = {e}
  <1>0. RingTypes /\ BatchKnown /\ HelperKnown /\ TodoKnown /\ CompletionsKnown
        /\ seen \in Seq(RowRecord)
    BY DEF KernelInv, RingTypes
  <1>1. Len(seen) \in Nat /\ DOMAIN seen = 1 .. Len(seen)
    BY <1>0, LenProperties
  <1>2. /\ \A p \in 1 .. Len(seen) : /\ seen[p].kind = "cqe" /\ seen[p].batch = number
                                     /\ seen[p].id \in BatchIds
        /\ \A p, q \in 1 .. Len(seen) : seen[p].id = seen[q].id => p = q
    BY <1>0, <1>1 DEF CompletionsKnown
  <1>3. Tail(todo) = <<>> /\ Len(Tail(todo)) = Len(todo) - 1 /\ Len(todo) \in Nat
        /\ ToSet(todo) = {e} \cup ToSet(Tail(todo))
    <2>1. todo \in Seq(CallRecord)
      BY <1>0 DEF RingTypes
    <2>. QED BY <1>0, <2>1, HeadIs, TailSet, LenProperties
  <1>4. Len(todo) = 1
    <2>1. Len(Tail(todo)) = 0
      BY <1>3, EmptySeq
    <2>. QED BY <1>3, <2>1
  <1>5. CASE at = "draining"
    <2>. DEFINE row == seen[Len(seen)]
    <2>1. mode = "shared" /\ seen # <<>> /\ e = WriteOf(<<row>>)
      BY <1>0, <1>5, HeadIs
    <2>2. Len(seen) \in 1 .. Len(seen) /\ row \in RowRecord
      BY <1>0, <2>1, LastOf
    <2>. HIDE DEF row
    <2>3. <<row>> \in Seq(RowRecord)
      BY <2>2
    <2>4. WriteOf(<<row>>).rows = <<row>> /\ WriteOf(<<row>>).call = "write"
      BY <2>3, CallKinds
    <2>5. Shown = Len(seen) - 1
      BY <1>4, <1>5, <2>1 DEF Shown
    <2>6. \A p \in 1 .. Len(seen) : Shown < p <=> p = Len(seen)
      <3>1. \A n \in Nat : \A p \in 1 .. n : n - 1 < p <=> p = n
        OBVIOUS
      <3>. QED BY <1>1, <2>5, <3>1
    <2>7. Unrepeated(<<row>>)
      BY DEF Unrepeated
    <2>8. \A r : r \in ToSet(<<row>>) <=> r = row
      BY OneRow
    <2>9. \A r : r \in ToSet(<<row>>) <=> \E p \in 1 .. Len(seen) : Shown < p /\ r = seen[p]
      BY <2>2, <2>6, <2>8 DEF row
    <2>10. Shown \in Nat /\ Shown <= Len(seen)
      BY <1>1, <2>2, <2>5
    <2>. QED BY <1>1, <1>2, <1>3, <2>1, <2>4, <2>7, <2>9, <2>10, NoCalls DEF row
  <1>6. CASE at \in {"failed", "succeeded"}
    <2>1. mode = "helper" /\ e = WriteOf(seen)
      BY <1>0, <1>6, HeadIs
    <2>2. e.rows = seen /\ e.call = "write"
      BY <1>0, <2>1, CallKinds
    <2>3. Shown = 0
      BY <1>6 DEF Shown
    <2>4. Unrepeated(seen)
      BY <1>1, <1>2 DEF Unrepeated, SameRow
    <2>5. \A r : r \in ToSet(seen) <=> \E p \in 1 .. Len(seen) : r = seen[p]
      BY <1>1 DEF ToSet
    <2>6. \A p \in 1 .. Len(seen) : Shown < p
      BY <1>1, <2>3
    <2>7. Shown \in Nat /\ Shown <= Len(seen)
      BY <1>1, <2>3
    <2>8. Unrepeated(e.rows)
      BY <2>2, <2>4
    <2>9. \A r : r \in ToSet(e.rows) <=> \E p \in 1 .. Len(seen) : Shown < p /\ r = seen[p]
      BY <2>2, <2>5, <2>6
    <2>. QED BY <1>1, <1>2, <1>3, <2>2, <2>7, <2>8, <2>9, NoCalls
  <1>. QED BY <1>5, <1>6

LEMMA NextOpening ==
    ASSUME KernelInv, todo # <<>>, at = "gathering", NEW e, e = Head(todo)
    PROVE  /\ e.rows = <<>> /\ e.call \in {"open", "setup"} /\ number = 0
           /\ \/ todo = Opens
              \/ todo = Tail(Opens)
  <1>0. RingTypes /\ BatchKnown /\ HelperKnown /\ TodoKnown
    BY DEF KernelInv
  <1>1. /\ e = Opens[1] \/ e = Opens[2]
        /\ todo = Opens \/ todo = Tail(Opens)
        /\ number = 0
    BY <1>0, HeadIs
  <1>2. /\ Call("open") \in CallRecord /\ Call("open").rows = <<>> /\ Call("open").call = "open"
        /\ Call("setup") \in CallRecord /\ Call("setup").rows = <<>> /\ Call("setup").call = "setup"
    BY CallKinds DEF CallNames
  <1>3. /\ [Call("open") EXCEPT !.fd = FileFd, !.file = "slots"].rows = <<>>
        /\ [Call("setup") EXCEPT !.fd = RingFd].rows = <<>>
        /\ [Call("open") EXCEPT !.fd = FileFd, !.file = "slots"].call = "open"
        /\ [Call("setup") EXCEPT !.fd = RingFd].call = "setup"
    BY <1>2 DEF CallRecord
  <1>. QED BY <1>1, <1>3 DEF Opens

-----------------------------------------------------------------------------
Clean == CleanCalls /\ CleanPlaces /\ CleanRows /\ CleanEnters /\ CleanAnswers

LEMMA NoFault ==
    ASSUME [RingNext]_ringVars, faults' = {}
    PROVE  /\ faults = {}
           /\ ~Torn /\ ~Killed
           /\ Perform => trace' = Append(trace, Head(todo))
           /\ EnterRing => at' = "waiting"
           /\ Return => \/ at = "short"
                        \/ at = "waiting" /\ trace' = Append(trace, Enter) /\ exit' = exit
  <1>1. \A kind : ~Fault(kind)
    BY DEF Fault
  <1>2. ~Missed
    BY <1>1 DEF Missed
  <1>3. /\ ~Torn /\ ~Killed
        /\ Perform => trace' = Append(trace, Head(todo)) /\ faults = {}
        /\ EnterRing => at' = "waiting" /\ faults = {}
    BY <1>1, <1>2 DEF Torn, Killed, Perform, EnterRing, Recorded
  <1>4. Return => /\ \/ at = "short"
                     \/ at = "waiting" /\ trace' = Append(trace, Enter) /\ exit' = exit
                  /\ faults = {}
    BY <1>1, <1>2 DEF Return, Recorded
  <1>5. CompleteOperation => faults = {}
    BY <1>1 DEF CompleteOperation
  <1>6. faults = {}
    BY <1>3, <1>4, <1>5
       DEF RingNext, Dispatcher, Program, SendJob, CloseInput, Take, Submit, Drain, Finish,
           DrainHelper, ExitHelper, ringVars
  <1>. QED BY <1>3, <1>4, <1>6

(* The rows of a call that is added have the batch of the enters before it. *)
LEMMA PlacesGrow ==
    ASSUME RingTypes, CleanPlaces, NEW e \in CallRecord, trace' = Append(trace, e),
           number' = number,
           \A r \in ToSet(e.rows) : /\ r.kind \in {"sqe", "cqe"} /\ r.batch = number
                                    /\ r.batch \in 1 .. number
                                    /\ r.batch = Rank(trace, Len(trace) + 1) + Lead(r),
           (\A r \in ToSet(e.rows) : r.kind = "sqe") \/ (\A r \in ToSet(e.rows) : r.kind = "cqe"),
           Rank(trace, Len(trace) + 1) + (IF e.call = "enter" THEN 1 ELSE 0)
              = IF at' \in {"submitting", "waiting"} THEN number - 1 ELSE number
    PROVE  CleanPlaces'
  <1>. DEFINE n == Len(trace)
  <1>1. /\ trace \in Seq(CallRecord) /\ n \in Nat /\ DOMAIN trace = 1 .. n
        /\ DOMAIN trace' = 1 .. n + 1 /\ Len(trace') = n + 1
        /\ trace'[n + 1] = e /\ \A i \in 1 .. n : trace'[i] = trace[i]
    <2>1. trace \in Seq(CallRecord)
      BY DEF RingTypes
    <2>. QED BY <2>1, TraceLonger
  <1>2. /\ \A i \in 1 .. n + 1 : Rank(trace', i) = Rank(trace, i)
        /\ Rank(trace', n + 2) = Rank(trace, n + 1) + (IF e.call = "enter" THEN 1 ELSE 0)
    BY <1>1, RankLonger
  <1>. HIDE DEF n
  <1>3. \A i \in 1 .. n + 1 : i \in 1 .. n \/ i = n + 1
    BY <1>1
  <1>4. \A i \in 1 .. n : i \in 1 .. n + 1
    BY <1>1
  <1>5. ASSUME NEW i \in DOMAIN trace', NEW r \in ToSet(trace'[i].rows)
        PROVE  /\ r.kind \in {"sqe", "cqe"} /\ r.batch \in 1 .. number'
               /\ r.batch = Rank(trace', i) + Lead(r)
    <2>1. CASE i \in 1 .. n
      <3>1. r \in ToSet(trace[i].rows) /\ Rank(trace', i) = Rank(trace, i)
        BY <1>1, <1>2, <1>4, <2>1
      <3>. QED BY <1>1, <2>1, <3>1 DEF CleanPlaces
    <2>2. CASE i = n + 1
      <3>1. r \in ToSet(e.rows) /\ Rank(trace', n + 1) = Rank(trace, n + 1) /\ n + 1 \in 1 .. n + 1
        BY <1>1, <1>2, <1>5, <2>2
      <3>. QED BY <2>2, <3>1 DEF n
    <2>. QED BY <1>1, <1>3, <2>1, <2>2
  <1>6. Rank(trace', Len(trace') + 1) = IF at' \in {"submitting", "waiting"} THEN number' - 1 ELSE number'
    <2>1. Len(trace') + 1 = n + 2
      BY <1>1
    <2>. QED BY <1>2, <2>1 DEF n
  <1>7. ASSUME NEW i \in DOMAIN trace', NEW k \in DOMAIN trace', NEW r \in ToSet(trace'[i].rows),
               NEW s \in ToSet(trace'[k].rows), r.kind = "sqe", s.kind = "cqe", i <= k
        PROVE  r.batch <= s.batch
    <2>1. CASE k \in 1 .. n
      <3>1. i \in 1 .. n
        BY <1>1, <1>7, <2>1
      <3>2. r \in ToSet(trace[i].rows) /\ s \in ToSet(trace[k].rows)
        BY <1>1, <2>1, <3>1
      <3>. QED BY <1>1, <1>7, <2>1, <3>1, <3>2 DEF CleanPlaces
    <2>2. CASE k = n + 1
      <3>1. s \in ToSet(e.rows)
        BY <1>1, <2>2
      <3>2. s.batch = number
        BY <3>1
      <3>3. r.batch \in 1 .. number /\ number \in Nat
        BY <1>5 DEF RingTypes
      <3>. QED BY <3>2, <3>3
    <2>. QED BY <1>1, <1>3, <2>1, <2>2
  <1>. QED BY <1>5, <1>6, <1>7 DEF CleanPlaces

LEMMA PlacesStay ==
    ASSUME CleanPlaces, UNCHANGED <<trace, number>>,
           at' \in {"submitting", "waiting"} <=> at \in {"submitting", "waiting"}
    PROVE  CleanPlaces'
  BY DEF CleanPlaces

(* What the rows of the trace are, wherever they are in it. *)
LEMMA WrittenKnown ==
    ASSUME KernelInv, CallsKnown, CleanPlaces
    PROVE  \A r \in Written : /\ r \in RowRecord /\ r.kind \in {"sqe", "cqe"}
                              /\ r.batch \in 1 .. number /\ KnownRow(r)
                              /\ r.kind = "sqe" => r.id \in 1 .. 2 * taken
  <1>1. /\ trace \in Seq(CallRecord) /\ taken \in Nat /\ Rows(trace) \in Seq(RowRecord)
        /\ \A r \in Written : KnownRow(r)
    BY TraceRows DEF KernelInv, RingTypes, Written
  <1>. SUFFICES ASSUME NEW r \in Written
                PROVE  /\ r \in RowRecord /\ r.kind \in {"sqe", "cqe"}
                       /\ r.batch \in 1 .. number /\ KnownRow(r)
                       /\ r.kind = "sqe" => r.id \in 1 .. 2 * taken
    OBVIOUS
  <1>2. r \in RowRecord
    BY <1>1 DEF Written, ToSet
  <1>3. r.kind \in {"sqe", "cqe"} /\ r.batch \in 1 .. number
    <2>1. PICK i \in DOMAIN trace : r \in ToSet(trace[i].rows)
      BY <1>1, RowsAre DEF Written
    <2>. QED BY <2>1 DEF CleanPlaces
  <1>4. ASSUME r.kind = "sqe" PROVE r.id \in 1 .. 2 * taken
    <2>1. PICK j \in 1 .. taken, i \in {1, 2} :
             r = Row("sqe", IdOf(j, i), JobOps[i], FdOf(JobOps[i]), "none", r.batch)
      BY <1>1, <1>4 DEF KnownRow
    <2>. DEFINE fd == FdOf(JobOps[i])
                op == JobOps[i]
                id == IdOf(j, i)
                b == r.batch
    <2>2. r = Row("sqe", id, op, fd, "none", b)
      BY <2>1
    <2>. HIDE DEF fd, op, id, b
    <2>3. r.id = id
      BY <2>2 DEF Row
    <2>4. id \in 1 .. 2 * taken
      BY <1>1 DEF id, IdOf
    <2>. QED BY <2>3, <2>4
  <1>. QED BY <1>1, <1>2, <1>3, <1>4

-----------------------------------------------------------------------------
(* The rows of the trace, when a step adds none. *)
LEMMA RowsKept ==
    ASSUME CleanRows, Rows(trace') = Rows(trace),
           \A s \in Written : s.kind = "sqe" =>
              IF Old(s.id)' THEN at' # "gathering" => s.batch < number'
              ELSE at' # "gathering" /\ s.batch = number',
           at' = "submitting" => \A r \in Written, i \in DOMAIN todo' :
              \A s \in ToSet(todo'[i].rows) : r.kind = "sqe" => r.id < s.id,
           at' # "gathering" => \A id \in BatchIds' :
              \/ \E s \in Written : s.kind = "sqe" /\ s.id = id
              \/ \E e \in ToSet(todo') : \E s \in ToSet(e.rows) : s.kind = "sqe" /\ s.id = id,
           \A c \in Written : c.kind = "cqe" => Old(c.id)' \/ \E p \in 1 .. Shown' : seen'[p] = c,
           at' = "waiting" => seen' = <<>>,
           \A p \in 1 .. Shown' : seen'[p] \in Written,
           \A s \in Written : s.kind = "sqe" /\ Old(s.id)' =>
              \E c \in Written : c.kind = "cqe" /\ c.id = s.id /\ c.batch = s.batch
    PROVE  CleanRows'
  <1>1. Written' = Written
    BY DEF Written
  <1>2. Unrepeated(Rows(trace)) /\ Answering(Rows(trace))
    BY DEF CleanRows
  <1>3. \A c \in Written : c.kind = "cqe" =>
           \E s \in Written : s.kind = "sqe" /\ s.id = c.id /\ s.batch = c.batch
    BY DEF CleanRows
  <1>. QED BY <1>1, <1>2, <1>3 DEF CleanRows, Old

LEMMA RowsSame ==
    ASSUME CleanRows, UNCHANGED <<mode, taken, batch, at, todo, number, seen, trace>>
    PROVE  CleanRows'
  BY DEF CleanRows, Written, Old, Shown, BatchIds

LEMMA RowsTaken ==
    ASSUME KernelInv, CleanRows, Take
    PROVE  CleanRows'
  <1>0. RingTypes /\ BatchKnown /\ taken \in Nat /\ batch \in Seq(Nat)
    BY DEF KernelInv, RingTypes, BatchKnown
  <1>1. /\ at = "gathering" /\ at' = at /\ UNCHANGED <<mode, todo, number, seen, trace>>
        /\ taken' = taken + 1 /\ batch' = Append(batch, taken + 1)
    BY DEF Take, Gathering, started, output
  <1>2. Len(batch') = Len(batch) + 1 /\ Len(batch) \in Nat
    <2>1. taken + 1 \in Nat
      BY <1>0
    <2>. QED BY <1>0, <1>1, <2>1, AppendProperties, LenProperties
  <1>3. \A id : Old(id)' <=> Old(id)
    <2>1. taken' - Len(batch') = taken - Len(batch)
      BY <1>0, <1>1, <1>2
    <2>. QED BY <2>1 DEF Old
  <1>4. Shown' = Shown /\ Written' = Written
    BY <1>1 DEF Shown, Written
  <1>. QED BY <1>1, <1>3, <1>4 DEF CleanRows, Written

LEMMA BatchOld ==
    ASSUME KernelInv
    PROVE  /\ \A id \in BatchIds : ~Old(id) /\ id \in Nat
           /\ \A id \in 1 .. 2 * taken : Old(id) \/ id \in BatchIds
  <1>1. taken \in Nat /\ Len(batch) \in Nat /\ Len(batch) <= taken
    BY LenProperties DEF KernelInv, RingTypes, BatchKnown
  <1>. QED BY <1>1 DEF BatchIds, Old

LEMMA RowsSubmitted ==
    ASSUME KernelInv, KernelInv', CallsKnown, CleanPlaces, CleanRows, Submit
    PROVE  CleanRows'
  <1>0. /\ RingTypes /\ BatchKnown /\ HelperKnown /\ number \in Nat /\ taken \in Nat
        /\ Len(batch) \in Nat
    BY LenProperties DEF KernelInv, RingTypes, BatchKnown
  <1>1. /\ at = "gathering" /\ UNCHANGED <<mode, replaces, taken, batch, seen, trace>>
        /\ \/ UNCHANGED <<at, todo, number>>
           \/ /\ batch # <<>> /\ number' = number + 1 /\ at' = "submitting"
              /\ todo' = PlanOf(number + 1)
    BY DEF Submit, Gathering, started, output, PlanOf
  <1>2. CASE UNCHANGED <<at, todo, number>>
    BY <1>1, <1>2, RowsSame
  <1>3. CASE batch # <<>> /\ number' = number + 1 /\ at' = "submitting" /\ todo' = PlanOf(number + 1)
    <2>1. mode = "helper" => number + 1 = 1
      BY <1>0, <1>1, <1>3 DEF HelperKnown, KernelInv
    <2>2. /\ \A p \in 1 .. Len(todo') : \A r \in ToSet(todo'[p].rows) :
                r.kind = "sqe" /\ r.batch = number + 1 /\ r.id \in BatchIds
          /\ \A id \in BatchIds : \E p \in 1 .. Len(todo') :
                \E r \in ToSet(todo'[p].rows) : r.kind = "sqe" /\ r.id = id
      <3>. DEFINE n == number + 1
                  plan == PlanOf(n)
      <3>1. n \in Nat /\ (mode = "helper" => n = 1) /\ batch # <<>> /\ todo' = plan
        BY <1>0, <1>3, <2>1
      <3>. HIDE DEF n
      <3>2. /\ \A p \in 1 .. Len(plan) : \A r \in ToSet(plan[p].rows) :
                  r.kind = "sqe" /\ r.batch = n /\ r.id \in BatchIds
            /\ \A id \in BatchIds : \E p \in 1 .. Len(plan) :
                  \E r \in ToSet(plan[p].rows) : r.kind = "sqe" /\ r.id = id
        BY <1>0, <3>1, PlanRows
      <3>. HIDE DEF plan
      <3>. QED BY <3>1, <3>2 DEF n
    <2>3. DOMAIN todo' = 1 .. Len(todo')
      <3>1. todo' \in Seq(CallRecord)
        BY DEF KernelInv, RingTypes
      <3>. QED BY <3>1, LenProperties
    <2>4. \A s \in Written : /\ s.batch < number + 1
                             /\ s.kind = "sqe" => Old(s.id) /\ s.id \in Nat
      <3>1. \A s \in Written : s.batch \in 1 .. number /\ (s.kind = "sqe" => s.id \in 1 .. 2 * taken)
        BY WrittenKnown
      <3>2. \A s \in Written : s.kind = "sqe" => Old(s.id)
        BY <1>1 DEF CleanRows
      <3>. QED BY <1>0, <3>1, <3>2
    <2>5. /\ \A id : Old(id)' <=> Old(id)
          /\ BatchIds' = BatchIds
      BY <1>1 DEF Old, BatchIds
    <2>6. Shown = 0 /\ Shown' = 0
      BY <1>1, <1>3 DEF Shown
    <2>7. \A s \in Written : s.kind = "sqe" =>
              IF Old(s.id)' THEN at' # "gathering" => s.batch < number'
              ELSE at' # "gathering" /\ s.batch = number'
      BY <1>3, <2>4, <2>5
    <2>8. ASSUME NEW r \in Written, NEW i \in DOMAIN todo', NEW s \in ToSet(todo'[i].rows),
                 r.kind = "sqe"
          PROVE  r.id < s.id
      <3>1. s.id \in BatchIds
        BY <2>2, <2>3
      <3>2. r.id \in Nat /\ Old(r.id)
        BY <2>4, <2>8
      <3>. QED BY <1>0, <3>1, <3>2 DEF Old, BatchIds
    <2>9. ASSUME NEW id \in BatchIds'
          PROVE  \E e \in ToSet(todo') : \E s \in ToSet(e.rows) : s.kind = "sqe" /\ s.id = id
      <3>1. PICK p \in 1 .. Len(todo') : \E r \in ToSet(todo'[p].rows) : r.kind = "sqe" /\ r.id = id
        BY <2>2, <2>5
      <3>2. todo'[p] \in ToSet(todo')
        BY <2>3 DEF ToSet
      <3>. QED BY <3>1, <3>2
    <2>10. \A c \in Written : c.kind = "cqe" => Old(c.id)'
      <3>1. \A c \in Written : c.kind = "cqe" => Old(c.id) \/ \E p \in 1 .. Shown : seen[p] = c
        BY DEF CleanRows
      <3>. QED BY <2>5, <2>6, <3>1
    <2>11. \A s \in Written : s.kind = "sqe" /\ Old(s.id)' =>
              \E c \in Written : c.kind = "cqe" /\ c.id = s.id /\ c.batch = s.batch
      BY <2>5 DEF CleanRows
    <2>12. Rows(trace') = Rows(trace)
      BY <1>1
    <2>13. \A p \in 1 .. Shown' : seen'[p] \in Written
      BY <2>6
    <2>14. at' # "waiting"
      BY <1>3
    <2>. QED BY <2>7, <2>8, <2>9, <2>10, <2>11, <2>12, <2>13, <2>14, RowsKept
  <1>. QED BY <1>1, <1>2, <1>3

LEMMA RowsEntered ==
    ASSUME KernelInv, CleanRows, EnterRing, at' = "waiting"
    PROVE  CleanRows'
  <1>0. RingTypes /\ BatchKnown /\ OperationsKnown
    BY DEF KernelInv
  <1>1. /\ at = "submitting" /\ todo = <<Enter>> /\ todo' = <<>>
        /\ UNCHANGED <<mode, taken, batch, number, seen, trace>>
    BY DEF EnterRing, started, output
  <1>2. Enter.rows = <<>>
    BY <1>0, EnterIs
  <1>3. ToSet(todo) = {Enter} /\ ToSet(todo') = {} /\ ToSet(<<>>) = {}
    BY <1>1, OneRow, NoCalls
  <1>4. /\ \A id : Old(id)' <=> Old(id)
        /\ BatchIds' = BatchIds
    BY <1>1 DEF Old, BatchIds
  <1>5. Shown = 0 /\ Shown' = 0
    BY <1>1 DEF Shown
  <1>6. seen' = <<>>
    BY <1>0, <1>1 DEF OperationsKnown
  <1>7. Rows(trace') = Rows(trace)
    BY <1>1
  <1>8. ASSUME NEW id \in BatchIds PROVE \E s \in Written : s.kind = "sqe" /\ s.id = id
    <2>1. \/ \E s \in Written : s.kind = "sqe" /\ s.id = id
          \/ \E e \in ToSet(todo) : \E s \in ToSet(e.rows) : s.kind = "sqe" /\ s.id = id
      BY <1>1 DEF CleanRows
    <2>. QED BY <1>2, <1>3, <2>1
  <1>9. /\ \A s \in Written : s.kind = "sqe" => IF Old(s.id) THEN s.batch < number ELSE s.batch = number
        /\ \A c \in Written : c.kind = "cqe" => Old(c.id) \/ \E p \in 1 .. Shown : seen[p] = c
        /\ \A s \in Written : s.kind = "sqe" /\ Old(s.id) =>
              \E c \in Written : c.kind = "cqe" /\ c.id = s.id /\ c.batch = s.batch
    BY <1>1 DEF CleanRows
  <1>. QED BY <1>1, <1>4, <1>5, <1>6, <1>7, <1>8, <1>9, RowsKept

LEMMA RowsReturned ==
    ASSUME KernelInv, CleanRows, Return, at = "waiting", trace' = Append(trace, Enter)
    PROVE  CleanRows'
  <1>0. RingTypes /\ BatchKnown /\ TodoKnown /\ trace \in Seq(CallRecord)
    BY DEF KernelInv, RingTypes
  <1>1. /\ at' = "draining" /\ todo = <<>> /\ UNCHANGED <<mode, taken, batch, todo, number, seen>>
    BY <1>0 DEF Return, started, TodoKnown
  <1>2. Enter.rows = <<>> /\ Enter \in CallRecord
    BY <1>0, EnterIs
  <1>3. Rows(trace') = Rows(trace)
    <2>1. Rows(trace) \in Seq(RowRecord) /\ Rows(trace') = Rows(trace) \o Enter.rows
      BY <1>0, <1>2, RowsLonger
    <2>2. Rows(trace) \o <<>> = Rows(trace)
      BY <2>1, ConcatEmptySeq
    <2>. QED BY <1>2, <2>1, <2>2
  <1>4. /\ \A id : Old(id)' <=> Old(id)
        /\ BatchIds' = BatchIds
    BY <1>1 DEF Old, BatchIds
  <1>5. seen = <<>> /\ Len(seen) = 0 /\ Len(todo) = 0
    BY <1>1, EmptySeq DEF CleanRows
  <1>6. Shown = 0 /\ Shown' = 0
    <2>1. Len(seen') = 0 /\ Len(todo') = 0
      BY <1>1, <1>5
    <2>2. Shown = 0
      BY DEF Shown
    <2>3. Shown' = IF mode = "shared" THEN Len(seen') - Len(todo') ELSE 0
      BY <1>1 DEF Shown
    <2>. QED BY <2>1, <2>2, <2>3
  <1>7. /\ \A s \in Written : s.kind = "sqe" => IF Old(s.id) THEN s.batch < number ELSE s.batch = number
        /\ \A c \in Written : c.kind = "cqe" => Old(c.id) \/ \E p \in 1 .. Shown : seen[p] = c
        /\ \A s \in Written : s.kind = "sqe" /\ Old(s.id) =>
              \E c \in Written : c.kind = "cqe" /\ c.id = s.id /\ c.batch = s.batch
        /\ \A id \in BatchIds :
              \/ \E s \in Written : s.kind = "sqe" /\ s.id = id
              \/ \E e \in ToSet(todo) : \E s \in ToSet(e.rows) : s.kind = "sqe" /\ s.id = id
    BY DEF CleanRows
  <1>. QED BY <1>1, <1>3, <1>4, <1>6, <1>7, RowsKept

(* The completions that are seen are not yet written. *)
LEMMA RowsSeen ==
    ASSUME KernelInv, KernelInv', CleanRows, at = "draining", todo = <<>>,
           UNCHANGED <<mode, taken, batch, number, trace>>,
           IF mode = "shared"
           THEN at' = at /\ seen' = Append(seen, CqeRow(Head(cq))) /\ cq # <<>> /\ Len(todo') = 1
           ELSE at' = "draining" \/ (at' \in {"failed", "succeeded"} /\ todo' # <<>>)
    PROVE  CleanRows'
  <1>0. RingTypes /\ seen \in Seq(RowRecord) /\ Len(seen) \in Nat
        /\ mode \in {"shared", "helper"}
    BY LenProperties DEF KernelInv, RingTypes
  <1>1. Rows(trace') = Rows(trace)
    OBVIOUS
  <1>2. /\ \A id : Old(id)' <=> Old(id)
        /\ BatchIds' = BatchIds
    BY DEF Old, BatchIds
  <1>3. Shown' = Shown /\ \A p \in 1 .. Shown : seen'[p] = seen[p]
    <2>1. CASE mode = "shared"
      <3>1. CqeRow(Head(cq)) \in RowRecord
        BY <2>1, CompletionKnown
      <3>2. Len(seen') = Len(seen) + 1 /\ \A p \in 1 .. Len(seen) : seen'[p] = seen[p]
        BY <1>0, <2>1, <3>1, AppendProperties
      <3>3. Shown = Len(seen) /\ Shown' = Len(seen)
        <4>1. Len(todo) = 0
          BY EmptySeq
        <4>2. Shown = Len(seen) - 0 /\ Shown' = Len(seen') - 1
          BY <2>1, <4>1 DEF Shown
        <4>. QED BY <1>0, <3>2, <4>2
      <3>. QED BY <3>2, <3>3
    <2>2. CASE mode = "helper"
      <3>1. Shown = 0 /\ Shown' = 0
        BY <2>2 DEF Shown
      <3>. QED BY <3>1
    <2>. QED BY <1>0, <2>1, <2>2
  <1>4. at' \notin {"gathering", "submitting", "waiting"}
    BY <1>0
  <1>5. /\ \A s \in Written : s.kind = "sqe" => IF Old(s.id) THEN s.batch < number ELSE s.batch = number
        /\ \A c \in Written : c.kind = "cqe" => Old(c.id) \/ \E p \in 1 .. Shown : seen[p] = c
        /\ \A p \in 1 .. Shown : seen[p] \in Written
        /\ \A s \in Written : s.kind = "sqe" /\ Old(s.id) =>
              \E c \in Written : c.kind = "cqe" /\ c.id = s.id /\ c.batch = s.batch
    BY DEF CleanRows
  <1>6. ASSUME NEW id \in BatchIds PROVE \E s \in Written : s.kind = "sqe" /\ s.id = id
    <2>1. \/ \E s \in Written : s.kind = "sqe" /\ s.id = id
          \/ \E e \in ToSet(todo) : \E s \in ToSet(e.rows) : s.kind = "sqe" /\ s.id = id
      BY DEF CleanRows
    <2>. QED BY <2>1, NoCalls
  <1>. QED BY <1>1, <1>2, <1>3, <1>4, <1>5, <1>6, RowsKept

(* Every job of a batch that is over has its completions in the trace. *)
LEMMA RowsFinished ==
    ASSUME KernelInv, KernelInv', CallsKnown, CleanPlaces, CleanRows, Finish
    PROVE  CleanRows'
  <1>0. /\ RingTypes /\ taken \in Nat /\ Len(batch) \in Nat /\ Len(batch) <= taken
        /\ seen \in Seq(RowRecord) /\ Len(seen) \in Nat /\ DOMAIN seen = 1 .. Len(seen)
    BY LenProperties DEF KernelInv, RingTypes, BatchKnown
  <1>1. /\ mode = "shared" /\ at = "draining" /\ todo = <<>>
        /\ UNCHANGED <<mode, taken, todo, number, trace>>
        /\ \/ UNCHANGED <<at, batch, seen>>
           \/ AllReaped /\ at' = "gathering" /\ batch' = <<>> /\ seen' = <<>>
    BY DEF Finish, Draining, started, output
  <1>2. CASE UNCHANGED <<at, batch, seen>>
    BY <1>1, <1>2, RowsSame
  <1>3. CASE AllReaped /\ at' = "gathering" /\ batch' = <<>> /\ seen' = <<>>
    <2>1. Rows(trace') = Rows(trace)
      BY <1>1
    <2>2. Shown = Len(seen) /\ Shown' = 0
      <3>1. Len(todo) = 0
        BY <1>1, EmptySeq
      <3>2. Shown = Len(seen) - 0 /\ Shown' = 0
        BY <1>1, <1>3, <3>1 DEF Shown
      <3>. QED BY <1>0, <3>2
    <2>3. \A id \in 1 .. 2 * taken : Old(id)'
      <3>1. Len(batch') = 0
        BY <1>3, EmptySeq
      <3>2. \A id : Old(id)' <=> id <= 2 * (taken - 0)
        BY <1>1, <3>1 DEF Old
      <3>. QED BY <1>0, <3>2
    <2>4. \A s \in Written : s.kind = "sqe" => Old(s.id)' /\ s.id \in 1 .. 2 * taken
      BY <2>3, WrittenKnown
    <2>5. ASSUME NEW c \in Written, c.kind = "cqe" PROVE Old(c.id)'
      <3>1. PICK s \in Written : s.kind = "sqe" /\ s.id = c.id
        BY <2>5 DEF CleanRows
      <3>. QED BY <2>4, <3>1
    <2>6. ASSUME NEW s \in Written, s.kind = "sqe"
          PROVE  \E c \in Written : c.kind = "cqe" /\ c.id = s.id /\ c.batch = s.batch
      <3>1. CASE Old(s.id)
        BY <2>6, <3>1 DEF CleanRows
      <3>2. CASE ~Old(s.id)
        <4>1. s.id \in BatchIds
          BY <2>4, <2>6, <3>2, BatchOld
        <4>2. s.batch = number
          BY <2>6, <3>2 DEF CleanRows
        <4>3. PICK p \in 1 .. Len(seen) : seen[p].id = s.id
          BY <1>0, <1>3, <4>1, AllSeenAll
        <4>4. seen[p].kind = "cqe" /\ seen[p].batch = number
          BY <1>0, <4>3 DEF KernelInv, CompletionsKnown
        <4>5. seen[p] \in Written
          BY <2>2, <4>3 DEF CleanRows
        <4>. QED BY <4>2, <4>3, <4>4, <4>5
      <3>. QED BY <3>1, <3>2
    <2>7. at' \notin {"submitting", "waiting"} /\ at' = "gathering"
      BY <1>3
    <2>. QED BY <2>1, <2>2, <2>4, <2>5, <2>6, <2>7, RowsKept
  <1>. QED BY <1>1, <1>2, <1>3

(* The calls that are made. *)
LEMMA RowsOpened ==
    ASSUME KernelInv, CleanRows, Perform, at = "gathering", trace' = Append(trace, Head(todo))
    PROVE  CleanRows'
  <1>. DEFINE e == Head(todo)
  <1>0. RingTypes /\ trace \in Seq(CallRecord)
    BY DEF KernelInv, RingTypes
  <1>1. /\ todo # <<>> /\ UNCHANGED <<mode, taken, batch, at, number, seen>>
    BY DEF Perform, started
  <1>2. e.rows = <<>> /\ e \in CallRecord
    BY <1>1, NextOpening, HeadIs DEF KernelInv
  <1>. HIDE DEF e
  <1>3. Rows(trace') = Rows(trace)
    <2>1. Rows(trace) \in Seq(RowRecord) /\ Rows(trace') = Rows(trace) \o e.rows
      BY <1>0, <1>2, RowsLonger DEF e
    <2>2. Rows(trace) \o <<>> = Rows(trace)
      BY <2>1, ConcatEmptySeq
    <2>. QED BY <1>2, <2>1, <2>2
  <1>4. \A id : Old(id)' <=> Old(id)
    BY <1>1 DEF Old
  <1>5. Shown = 0 /\ Shown' = 0
    BY <1>1 DEF Shown
  <1>6. /\ \A s \in Written : s.kind = "sqe" => Old(s.id)
        /\ \A c \in Written : c.kind = "cqe" => Old(c.id) \/ \E p \in 1 .. Shown : seen[p] = c
        /\ \A s \in Written : s.kind = "sqe" /\ Old(s.id) =>
              \E c \in Written : c.kind = "cqe" /\ c.id = s.id /\ c.batch = s.batch
    BY DEF CleanRows
  <1>. QED BY <1>1, <1>3, <1>4, <1>5, <1>6, RowsKept

LEMMA RowsPrepared ==
    ASSUME KernelInv, CallsKnown, CleanPlaces, CleanRows, Perform, at = "submitting",
           trace' = Append(trace, Head(todo))
    PROVE  CleanRows'
  <1>. DEFINE e == Head(todo)
  <1>0. /\ RingTypes /\ trace \in Seq(CallRecord) /\ todo \in Seq(CallRecord)
    BY DEF KernelInv, RingTypes
  <1>1. /\ todo # <<>> /\ todo' = Tail(todo) /\ UNCHANGED <<mode, taken, batch, at, number, seen>>
    BY DEF Perform, started
  <1>2. /\ e \in CallRecord /\ ToSet(todo) = {e} \cup ToSet(Tail(todo)) /\ Head(todo) = todo[1]
        /\ Tail(todo) \in Seq(CallRecord) /\ Len(Tail(todo)) = Len(todo) - 1
        /\ \A q \in 1 .. Len(todo) - 1 : Tail(todo)[q] = todo[q + 1]
        /\ Len(todo) \in Nat /\ DOMAIN todo = 1 .. Len(todo) /\ Len(todo) # 0
        /\ DOMAIN Tail(todo) = 1 .. Len(todo) - 1
    BY <1>0, <1>1, TailSet, LenProperties, EmptySeq, HeadTailProperties
  <1>3. /\ Unrepeated(e.rows)
        /\ \A r \in ToSet(e.rows) : r.kind = "sqe" /\ r.batch = number /\ r.id \in BatchIds
        /\ \A i \in DOMAIN Tail(todo) :
              \A r \in ToSet(e.rows), s \in ToSet(Tail(todo)[i].rows) : r.id < s.id
    BY <1>1, NextSubmission
  <1>4. /\ \A r \in ToSet(e.rows) : ~Old(r.id)
        /\ \A id \in BatchIds : id \in Nat
    BY <1>3, BatchOld
  <1>5. /\ \A r \in Written, i \in DOMAIN todo : \A s \in ToSet(todo[i].rows) :
              r.kind = "sqe" => r.id < s.id
        /\ Unrepeated(Rows(trace)) /\ Answering(Rows(trace))
    BY DEF CleanRows
  <1>. HIDE DEF e
  <1>6. /\ Rows(trace) \in Seq(RowRecord) /\ e.rows \in Seq(RowRecord)
        /\ Rows(trace') = Rows(trace) \o e.rows
        /\ Written' = Written \cup ToSet(e.rows)
    BY <1>0, <1>2, RowsLonger DEF e, Written
  <1>7. \A r \in Written, s \in ToSet(e.rows) : r.kind = "sqe" => r.id < s.id
    <2>1. 1 \in DOMAIN todo /\ todo[1] = e
      BY <1>2 DEF e
    <2>. QED BY <1>5, <2>1
  <1>8. Unrepeated(Rows(trace'))
    <2>1. \A r \in Written, s \in ToSet(e.rows) : ~SameRow(r, s)
      <3>. SUFFICES ASSUME NEW r \in Written, NEW s \in ToSet(e.rows), r.kind = s.kind, r.id = s.id
                    PROVE  FALSE
        BY DEF SameRow
      <3>1. s.kind = "sqe" /\ s.id \in Nat /\ r.id < s.id
        BY <1>3, <1>4, <1>7
      <3>. QED BY <3>1
    <2>. QED BY <1>3, <1>5, <1>6, <2>1, ConcatUnrepeated DEF Written
  <1>9. Answering(Rows(trace'))
    <2>1. \A c \in ToSet(e.rows) : c.kind # "cqe"
      BY <1>3
    <2>. QED BY <1>5, <1>6, <2>1, ConcatAnswering
  <1>10. /\ \A id : Old(id)' <=> Old(id)
         /\ BatchIds' = BatchIds
    BY <1>1 DEF Old, BatchIds
  <1>11. Shown = 0 /\ Shown' = 0
    BY <1>1 DEF Shown
  <1>12. \A s \in Written' : s.kind = "sqe" =>
           IF Old(s.id)' THEN at' # "gathering" => s.batch < number'
           ELSE at' # "gathering" /\ s.batch = number'
    BY <1>1, <1>3, <1>4, <1>6, <1>10 DEF CleanRows
  <1>13. ASSUME NEW r \in Written', NEW i \in DOMAIN todo', NEW s \in ToSet(todo'[i].rows),
                r.kind = "sqe"
         PROVE  r.id < s.id
    <2>1. i \in 1 .. Len(todo) - 1 /\ todo'[i] = todo[i + 1] /\ i + 1 \in DOMAIN todo
      BY <1>1, <1>2
    <2>2. CASE r \in Written
      BY <1>5, <1>13, <2>1, <2>2
    <2>3. CASE r \in ToSet(e.rows)
      BY <1>1, <1>2, <1>3, <2>1, <2>3
    <2>. QED BY <1>6, <2>2, <2>3
  <1>14. ASSUME NEW id \in BatchIds
         PROVE  \/ \E s \in Written' : s.kind = "sqe" /\ s.id = id
                \/ \E c \in ToSet(todo') : \E s \in ToSet(c.rows) : s.kind = "sqe" /\ s.id = id
    <2>1. \/ \E s \in Written : s.kind = "sqe" /\ s.id = id
          \/ \E c \in ToSet(todo) : \E s \in ToSet(c.rows) : s.kind = "sqe" /\ s.id = id
      BY DEF CleanRows
    <2>2. CASE \E s \in Written : s.kind = "sqe" /\ s.id = id
      BY <1>6, <2>2
    <2>3. CASE \E c \in ToSet(todo) : \E s \in ToSet(c.rows) : s.kind = "sqe" /\ s.id = id
      <3>1. PICK c \in ToSet(todo) : \E s \in ToSet(c.rows) : s.kind = "sqe" /\ s.id = id
        BY <2>3
      <3>2. CASE c = e
        BY <1>6, <3>1, <3>2
      <3>3. CASE c \in ToSet(Tail(todo))
        BY <1>1, <3>1, <3>3
      <3>. QED BY <1>2, <3>2, <3>3
    <2>. QED BY <2>1, <2>2, <2>3
  <1>15. \A c \in Written' : c.kind = "cqe" => c \in Written
    BY <1>3, <1>6
  <1>16. \A c \in Written' : c.kind = "cqe" => Old(c.id)' \/ \E p \in 1 .. Shown' : seen'[p] = c
    BY <1>10, <1>11, <1>15 DEF CleanRows
  <1>17. \A c \in Written' : c.kind = "cqe" =>
           \E s \in Written' : s.kind = "sqe" /\ s.id = c.id /\ s.batch = c.batch
    BY <1>6, <1>15 DEF CleanRows
  <1>18. \A s \in Written' : s.kind = "sqe" /\ Old(s.id)' =>
           \E c \in Written' : c.kind = "cqe" /\ c.id = s.id /\ c.batch = s.batch
    <2>1. \A s \in Written' : s.kind = "sqe" /\ Old(s.id)' => s \in Written /\ Old(s.id)
      BY <1>4, <1>6, <1>10
    <2>. QED BY <1>6, <2>1 DEF CleanRows
  <1>19. at' = "submitting" /\ \A p \in 1 .. Shown' : FALSE
    BY <1>1, <1>11
  <1>. QED BY <1>8, <1>9, <1>10, <1>12, <1>13, <1>14, <1>16, <1>17, <1>18, <1>19 DEF CleanRows

LEMMA RowsCompleted ==
    ASSUME KernelInv, CallsKnown, CleanPlaces, CleanRows, Perform,
           at \in {"draining", "failed", "succeeded"}, trace' = Append(trace, Head(todo))
    PROVE  CleanRows'
  <1>. DEFINE e == Head(todo)
  <1>0. RingTypes /\ trace \in Seq(CallRecord)
    BY DEF KernelInv, RingTypes
  <1>1. /\ todo # <<>> /\ todo' = Tail(todo) /\ UNCHANGED <<mode, taken, batch, at, number, seen>>
    BY DEF Perform, started
  <1>2. /\ Tail(todo) = <<>> /\ Unrepeated(e.rows)
        /\ Shown \in Nat /\ Shown <= Len(seen) /\ Len(seen) \in Nat /\ DOMAIN seen = 1 .. Len(seen)
        /\ \A r : r \in ToSet(e.rows) <=> \E p \in 1 .. Len(seen) : Shown < p /\ r = seen[p]
        /\ \A p \in 1 .. Len(seen) : /\ seen[p].kind = "cqe" /\ seen[p].batch = number
                                     /\ seen[p].id \in BatchIds
        /\ \A p, q \in 1 .. Len(seen) : seen[p].id = seen[q].id => p = q
        /\ ToSet(Tail(todo)) = {} /\ ToSet(todo) = {e}
    BY <1>1, NextCompletion
  <1>3. e \in CallRecord
    BY <1>0, <1>1, HeadIs DEF KernelInv
  <1>4. Shown' = Len(seen)
    <2>1. Len(todo') = 0 /\ todo' = <<>>
      BY <1>1, <1>2, EmptySeq
    <2>2. at' \in {"draining", "failed", "succeeded"} /\ Len(seen') = Len(seen)
      BY <1>1
    <2>3. at = "draining" => mode = "shared"
      BY <1>0, <1>1, HeadIs DEF KernelInv
    <2>4. Shown' = IF mode' = "shared" /\ at' = "draining" THEN Len(seen') - Len(todo') ELSE Len(seen')
      BY <1>1, <2>1, <2>2, <2>3 DEF Shown
    <2>. QED BY <1>2, <2>1, <2>2, <2>4
  <1>. HIDE DEF e
  <1>5. /\ Rows(trace) \in Seq(RowRecord) /\ e.rows \in Seq(RowRecord)
        /\ Rows(trace') = Rows(trace) \o e.rows
        /\ Written' = Written \cup ToSet(e.rows)
    BY <1>0, <1>3, RowsLonger DEF e, Written
  <1>6. \A c \in ToSet(e.rows) : c.kind = "cqe" /\ c.batch = number /\ c.id \in BatchIds /\ ~Old(c.id)
    BY <1>2, BatchOld
  <1>7. \A c \in Written : c.kind = "cqe" => Old(c.id) \/ \E p \in 1 .. Shown : seen[p] = c
    BY DEF CleanRows
  <1>8. Unrepeated(Rows(trace'))
    <2>1. \A r \in Written, s \in ToSet(e.rows) : ~SameRow(r, s)
      <3>. SUFFICES ASSUME NEW r \in Written, NEW s \in ToSet(e.rows), r.kind = s.kind, r.id = s.id
                    PROVE  FALSE
        BY DEF SameRow
      <3>1. r.kind = "cqe" /\ ~Old(r.id)
        BY <1>6
      <3>2. PICK p \in 1 .. Shown : seen[p] = r
        BY <1>7, <3>1
      <3>3. PICK q \in 1 .. Len(seen) : Shown < q /\ s = seen[q]
        BY <1>2
      <3>4. p \in 1 .. Len(seen) /\ p # q
        BY <1>2, <3>2, <3>3
      <3>. QED BY <1>2, <3>2, <3>3, <3>4
    <2>2. Unrepeated(Rows(trace))
      BY DEF CleanRows
    <2>3. \A r \in ToSet(Rows(trace)), s \in ToSet(e.rows) : ~SameRow(r, s)
      BY <2>1 DEF Written
    <2>4. Unrepeated(e.rows)
      BY <1>2
    <2>5. Unrepeated(Rows(trace) \o e.rows)
      BY <1>5, <2>2, <2>3, <2>4, ConcatUnrepeated
    <2>. QED BY <1>5, <2>5
  <1>9. ASSUME NEW id \in BatchIds
        PROVE  \E s \in Written : s.kind = "sqe" /\ s.id = id /\ s.batch = number
    <2>1. \/ \E s \in Written : s.kind = "sqe" /\ s.id = id
          \/ \E s \in ToSet(e.rows) : s.kind = "sqe" /\ s.id = id
      BY <1>2 DEF CleanRows
    <2>2. PICK s \in Written : s.kind = "sqe" /\ s.id = id
      BY <1>6, <2>1
    <2>3. ~Old(s.id)
      BY <2>2, BatchOld
    <2>. QED BY <2>2, <2>3 DEF CleanRows
  <1>10. Answering(Rows(trace'))
    <2>1. \A c \in ToSet(e.rows) : c.kind = "cqe" =>
             \E s \in ToSet(Rows(trace)) : s.kind = "sqe" /\ s.id = c.id
      BY <1>6, <1>9 DEF Written
    <2>2. Answering(Rows(trace))
      BY DEF CleanRows
    <2>. QED BY <1>5, <2>1, <2>2, ConcatAnswering
  <1>11. /\ \A id : Old(id)' <=> Old(id)
         /\ BatchIds' = BatchIds
    BY <1>1 DEF Old, BatchIds
  <1>12. \A s \in Written' : s.kind = "sqe" => s \in Written
    BY <1>5, <1>6
  <1>13. \A s \in Written' : s.kind = "sqe" =>
           IF Old(s.id)' THEN at' # "gathering" => s.batch < number'
           ELSE at' # "gathering" /\ s.batch = number'
    BY <1>1, <1>11, <1>12 DEF CleanRows
  <1>14. \A id \in BatchIds' : \E s \in Written' : s.kind = "sqe" /\ s.id = id
    BY <1>5, <1>9, <1>11
  <1>15. \A c \in Written' : c.kind = "cqe" => Old(c.id)' \/ \E p \in 1 .. Shown' : seen'[p] = c
    <2>. SUFFICES ASSUME NEW c \in Written', c.kind = "cqe"
                  PROVE  Old(c.id) \/ \E p \in 1 .. Len(seen) : seen[p] = c
      BY <1>1, <1>4, <1>11
    <2>1. CASE c \in Written
      <3>1. \A p \in 1 .. Shown : p \in 1 .. Len(seen)
        BY <1>2
      <3>. QED BY <1>7, <2>1, <3>1
    <2>2. CASE c \in ToSet(e.rows)
      BY <1>2, <2>2
    <2>. QED BY <1>5, <2>1, <2>2
  <1>16. \A p \in 1 .. Shown' : seen'[p] \in Written'
    <2>. SUFFICES ASSUME NEW p \in 1 .. Len(seen)
                  PROVE  seen[p] \in Written'
      BY <1>1, <1>4
    <2>1. CASE Shown < p
      BY <1>2, <1>5, <2>1
    <2>2. CASE ~(Shown < p)
      <3>1. p \in 1 .. Shown
        BY <1>2, <2>2
      <3>. QED BY <1>5, <3>1 DEF CleanRows
    <2>. QED BY <2>1, <2>2
  <1>17. \A c \in Written' : c.kind = "cqe" =>
           \E s \in Written' : s.kind = "sqe" /\ s.id = c.id /\ s.batch = c.batch
    <2>. SUFFICES ASSUME NEW c \in Written', c.kind = "cqe"
                  PROVE  \E s \in Written : s.kind = "sqe" /\ s.id = c.id /\ s.batch = c.batch
      BY <1>5
    <2>1. CASE c \in Written
      BY <2>1 DEF CleanRows
    <2>2. CASE c \in ToSet(e.rows)
      BY <1>6, <1>9, <2>2
    <2>. QED BY <1>5, <2>1, <2>2
  <1>18. \A s \in Written' : s.kind = "sqe" /\ Old(s.id)' =>
           \E c \in Written' : c.kind = "cqe" /\ c.id = s.id /\ c.batch = s.batch
    <2>1. \A s \in Written' : s.kind = "sqe" /\ Old(s.id)' => s \in Written /\ Old(s.id)
      BY <1>11, <1>12
    <2>. QED BY <1>5, <2>1 DEF CleanRows
  <1>19. at' \notin {"submitting", "waiting"}
    BY <1>1
  <1>. QED BY <1>8, <1>10, <1>13, <1>14, <1>15, <1>16, <1>17, <1>18, <1>19 DEF CleanRows

LEMMA RowsStep ==
    ASSUME KernelInv, KernelInv', CallsKnown, CleanPlaces, CleanRows, at # "short",
           [RingNext]_ringVars, faults' = {}
    PROVE  CleanRows'
  <1>1. CASE Dispatcher \/ CompleteOperation \/ ExitHelper \/ UNCHANGED ringVars
    <2>1. UNCHANGED <<mode, taken, batch, at, todo, number, seen, trace>>
      BY <1>1 DEF Dispatcher, SendJob, CloseInput, CompleteOperation, ExitHelper, ringVars,
                  started, output
    <2>. QED BY <2>1, RowsSame
  <1>2. CASE Perform
    <2>1. trace' = Append(trace, Head(todo))
      BY <1>2, NoFault
    <2>2. todo # <<>>
      BY <1>2 DEF Perform
    <2>3. at \in {"gathering", "submitting", "draining", "failed", "succeeded"}
      BY <2>2, HeadIs DEF KernelInv
    <2>. QED BY <1>2, <2>1, <2>3, RowsOpened, RowsPrepared, RowsCompleted
  <1>3. CASE EnterRing
    BY <1>3, NoFault, RowsEntered
  <1>4. CASE Return
    BY <1>4, NoFault, RowsReturned
  <1>5. CASE Drain
    <2>1. /\ at = "draining" /\ todo = <<>> /\ mode = "shared"
          /\ UNCHANGED <<mode, taken, batch, at, number, trace>>
          /\ \/ UNCHANGED <<todo, seen>>
             \/ /\ cq # <<>> /\ todo' = <<WriteOf(<<CqeRow(Head(cq))>>)>>
                /\ seen' = Append(seen, CqeRow(Head(cq)))
      BY <1>5 DEF Drain, Draining, started, output
    <2>2. CASE UNCHANGED <<todo, seen>>
      BY <2>1, <2>2, RowsSame
    <2>3. CASE /\ cq # <<>> /\ todo' = <<WriteOf(<<CqeRow(Head(cq))>>)>>
               /\ seen' = Append(seen, CqeRow(Head(cq)))
      <3>1. Len(todo') = 1
        BY <2>3
      <3>. QED BY <2>1, <2>3, <3>1, RowsSeen
    <2>. QED BY <2>1, <2>2, <2>3
  <1>6. CASE DrainHelper
    <2>1. /\ at = "draining" /\ todo = <<>> /\ mode # "shared"
          /\ UNCHANGED <<mode, taken, batch, number, trace>>
          /\ at' = at \/ (at' \in {"failed", "succeeded"} /\ todo' = <<WriteOf(seen')>>)
      BY <1>6 DEF DrainHelper, Draining, Flush, started, output
    <2>2. <<WriteOf(seen')>> # <<>>
      BY WriteCall
    <2>. QED BY <2>1, <2>2, RowsSeen
  <1>. QED BY <1>1, <1>2, <1>3, <1>4, <1>5, <1>6, NoFault, RowsTaken, RowsSubmitted, RowsFinished
            DEF RingNext, Program

LEMMA PlacesStep ==
    ASSUME KernelInv, KernelInv', CallsKnown, FilesEarly, CleanPlaces, at # "short",
           [RingNext]_ringVars, faults' = {}
    PROVE  CleanPlaces'
  <1>0. /\ RingTypes /\ trace \in Seq(CallRecord) /\ Len(trace) \in Nat /\ number \in Nat
        /\ BatchKnown
    BY LenProperties DEF KernelInv, RingTypes
  <1>. DEFINE rank == Rank(trace, Len(trace) + 1)
  <1>1. rank = IF at \in {"submitting", "waiting"} THEN number - 1 ELSE number
    BY DEF CleanPlaces
  <1>2. CASE Perform
    <2>. DEFINE e == Head(todo)
    <2>1. /\ trace' = Append(trace, e) /\ todo # <<>> /\ e.call # "enter" /\ number' = number
          /\ at' = at /\ e \in CallRecord
      BY <1>0, <1>2, NoFault, HeadIs DEF Perform, KernelInv
    <2>2. number # 0 => number \in 1 .. number
      BY <1>0
    <2>3. CASE at = "gathering"
      <3>1. e.rows = <<>>
        BY <2>1, <2>3, NextOpening
      <3>. HIDE DEF e, rank
      <3>2. \A r \in ToSet(e.rows) : FALSE
        BY <3>1, NoCalls
      <3>. QED BY <1>0, <1>1, <2>1, <2>3, <3>2, PlacesGrow DEF rank
    <2>4. CASE at = "submitting"
      <3>1. \A r \in ToSet(e.rows) : r.kind = "sqe" /\ r.batch = number
        BY <2>1, <2>4, NextSubmission
      <3>2. number \in 1 .. number
        BY <2>2, <2>4 DEF FilesEarly
      <3>. HIDE DEF e
      <3>3. rank = number - 1 /\ rank + 1 = number /\ rank + 0 = number - 1
        BY <1>0, <1>1, <2>4
      <3>. HIDE DEF rank
      <3>4. \A r \in ToSet(e.rows) : r.batch = rank + Lead(r)
        BY <3>1, <3>3 DEF Lead
      <3>. QED BY <1>0, <2>1, <2>4, <3>1, <3>2, <3>3, <3>4, PlacesGrow DEF rank
    <2>5. CASE at \in {"draining", "failed", "succeeded"}
      <3>1. \A r \in ToSet(e.rows) : r.kind = "cqe" /\ r.batch = number
        BY <2>1, <2>5, NextCompletion
      <3>2. number \in 1 .. number
        BY <2>2, <2>5 DEF FilesEarly
      <3>. HIDE DEF e
      <3>3. rank = number /\ rank + 0 = number
        BY <1>0, <1>1, <2>5
      <3>. HIDE DEF rank
      <3>4. \A r \in ToSet(e.rows) : r.batch = rank + Lead(r)
        BY <3>1, <3>3 DEF Lead
      <3>. QED BY <1>0, <2>1, <2>5, <3>1, <3>2, <3>3, <3>4, PlacesGrow DEF rank
    <2>. QED BY <2>1, <2>3, <2>4, <2>5, HeadIs DEF KernelInv
  <1>3. CASE Return
    <2>1. trace' = Append(trace, Enter) /\ at = "waiting" /\ at' = "draining" /\ number' = number
      BY <1>3, NoFault DEF Return
    <2>2. Enter.rows = <<>> /\ Enter \in CallRecord /\ Enter.call = "enter"
      BY <1>0, EnterIs
    <2>3. \A r \in ToSet(Enter.rows) : FALSE
      BY <2>2, NoCalls
    <2>4. rank + 1 = number
      BY <1>0, <1>1, <2>1
    <2>. HIDE DEF rank
    <2>. QED BY <1>0, <2>1, <2>2, <2>3, <2>4, PlacesGrow DEF rank
  <1>4. CASE Submit
    <2>1. /\ at = "gathering" /\ trace' = trace
          /\ \/ UNCHANGED <<at, number>>
             \/ number' = number + 1 /\ at' = "submitting"
      BY <1>4 DEF Submit, Gathering, output
    <2>2. CASE UNCHANGED <<at, number>>
      BY <2>1, <2>2, PlacesStay
    <2>3. CASE number' = number + 1 /\ at' = "submitting"
      <3>1. rank = number' - 1
        BY <1>0, <1>1, <2>1, <2>3
      <3>2. \A b \in 1 .. number : b \in 1 .. number'
        BY <1>0, <2>3
      <3>. QED BY <2>1, <2>3, <3>1, <3>2 DEF CleanPlaces
    <2>. QED BY <2>1, <2>2, <2>3
  <1>5. CASE EnterRing
    <2>1. UNCHANGED <<trace, number>> /\ at = "submitting" /\ at' = "waiting"
      BY <1>5, NoFault DEF EnterRing, output
    <2>. QED BY <2>1, PlacesStay
  <1>6. CASE \/ Dispatcher \/ Take \/ Drain \/ Finish \/ DrainHelper \/ ExitHelper
             \/ CompleteOperation \/ UNCHANGED ringVars
    <2>1. /\ UNCHANGED <<trace, number>>
          /\ at' = at \/ (at = "draining" /\ at' \in {"gathering", "failed", "succeeded"})
      BY <1>6 DEF Dispatcher, SendJob, CloseInput, Take, Drain, Finish, DrainHelper, ExitHelper,
                  CompleteOperation, ringVars, output, Draining, Flush
    <2>. QED BY <2>1, PlacesStay
  <1>. QED BY <1>2, <1>3, <1>4, <1>5, <1>6, NoFault DEF RingNext, Program

LEMMA AnswersStep ==
    ASSUME KernelInv, KernelInv', CleanAnswers, [RingNext]_ringVars, faults' = {}
    PROVE  CleanAnswers'
  <1>0. /\ RingTypes /\ BatchKnown /\ taken \in Nat /\ Len(batch) \in Nat /\ batch \in Seq(Nat)
        /\ Len(batch) <= taken
    BY LenProperties DEF KernelInv, RingTypes, BatchKnown
  <1>1. CASE Take
    <2>1. /\ exit = "running" /\ exit' = exit /\ UNCHANGED <<mode, answered>>
          /\ taken' = taken + 1 /\ batch' = Append(batch, taken + 1)
      BY <1>1 DEF Take, Gathering, Running, started
    <2>2. Len(batch') = Len(batch) + 1
      <3>1. taken + 1 \in Nat
        BY <1>0
      <3>. QED BY <1>0, <2>1, <3>1, AppendProperties
    <2>3. taken' - Len(batch') = taken - Len(batch)
      BY <1>0, <2>1, <2>2
    <2>. QED BY <2>1, <2>3 DEF CleanAnswers
  <1>2. CASE Finish
    <2>1. /\ exit = "running" /\ UNCHANGED <<mode, taken>>
          /\ \/ UNCHANGED <<answered, batch>> /\ exit' = "1"
             \/ answered' = answered \cup ToSet(batch) /\ batch' = <<>> /\ exit' = exit
      BY <1>2 DEF Finish, Draining, Running, started
    <2>2. CASE UNCHANGED <<answered, batch>> /\ exit' = "1"
      BY <2>1, <2>2 DEF CleanAnswers
    <2>3. CASE answered' = answered \cup ToSet(batch) /\ batch' = <<>> /\ exit' = exit
      <3>1. taken' - Len(batch') = taken
        <4>1. Len(batch') = 0
          BY <2>3, EmptySeq
        <4>. QED BY <1>0, <2>1, <4>1
      <3>2. ASSUME mode = "shared", NEW j \in 1 .. taken PROVE j \in answered'
        <4>1. CASE j \in 1 .. taken - Len(batch)
          BY <2>3, <3>2, <4>1 DEF CleanAnswers
        <4>2. CASE ~(j \in 1 .. taken - Len(batch))
          <5>1. j - (taken - Len(batch)) \in 1 .. Len(batch)
            BY <1>0, <4>2
          <5>2. batch[j - (taken - Len(batch))] = j
            BY <1>0, <5>1, LenProperties DEF BatchKnown
          <5>3. j \in ToSet(batch)
            BY <1>0, <5>1, <5>2, LenProperties DEF ToSet
          <5>. QED BY <2>3, <5>3
        <4>. QED BY <4>1, <4>2
      <3>. QED BY <2>1, <2>3, <3>1, <3>2 DEF CleanAnswers
    <2>. QED BY <2>1, <2>2, <2>3
  <1>3. CASE Submit
    <2>1. /\ exit = "running" /\ todo = <<>> /\ at = "gathering"
          /\ UNCHANGED <<mode, taken, batch, answered>>
          /\ \/ batch = <<>> /\ exit' = "0" /\ UNCHANGED <<at, todo, number>>
             \/ exit' = "1"
             \/ exit' = exit
      BY <1>3 DEF Submit, Gathering, Running, started
    <2>2. ASSUME batch = <<>> PROVE mode = "shared"
      <3>. SUFFICES ASSUME mode = "helper" PROVE FALSE
        BY <1>0 DEF RingTypes
      <3>1. Len(batch) = 0 /\ taken = Len(batch) /\ sent = 1
        BY <2>2, EmptySeq DEF KernelInv, HelperKnown
      <3>2. ~Full
        BY <3>1, RingAssumption DEF Full
      <3>3. ~InputOver /\ ~InputIdle
        BY <2>2, <3>1 DEF InputOver, InputIdle
      <3>. QED BY <1>3, <3>2, <3>3 DEF Submit, Flushes
    <2>3. CASE batch = <<>> /\ exit' = "0" /\ UNCHANGED <<at, todo, number>>
      BY <2>1, <2>2, <2>3 DEF CleanAnswers
    <2>4. CASE exit' # "0"
      BY <2>1, <2>4 DEF CleanAnswers
    <2>. QED BY <2>1, <2>3, <2>4
  <1>4. CASE ExitHelper
    <2>1. /\ todo = <<>> /\ at \in {"failed", "succeeded"} /\ UNCHANGED <<mode, taken, batch, at, todo>>
          /\ \/ exit' = "1" /\ answered' = answered
             \/ at = "succeeded" /\ exit' = "0" /\ answered' = answered \cup ToSet(batch)
      BY <1>4 DEF ExitHelper, started
    <2>2. mode = "helper"
      BY <2>1 DEF KernelInv, HelperKnown
    <2>. QED BY <2>1, <2>2 DEF CleanAnswers
  <1>5. CASE Perform \/ EnterRing \/ Return \/ Drain \/ DrainHelper
    <2>1. /\ UNCHANGED <<mode, taken, batch, answered>> /\ exit = "running"
          /\ exit' \in {"running", "1"}
      BY <1>5 DEF Perform, EnterRing, Return, Drain, DrainHelper, Draining, Running, started
    <2>. QED BY <2>1 DEF CleanAnswers
  <1>6. CASE Dispatcher \/ CompleteOperation \/ UNCHANGED ringVars
    <2>1. UNCHANGED <<mode, taken, batch, answered, exit, todo, at>>
      BY <1>6 DEF Dispatcher, SendJob, CloseInput, CompleteOperation, ringVars, started
    <2>. QED BY <2>1 DEF CleanAnswers
  <1>. QED BY <1>1, <1>2, <1>3, <1>4, <1>5, <1>6, NoFault DEF RingNext, Program

-----------------------------------------------------------------------------
(* Every call is recorded, with its result, and its rows are in the file. *)
SetupLeft == \E e \in ToSet(todo) : e.call = "setup"

LEMMA CleanCallsStay ==
    ASSUME CleanCalls, UNCHANGED <<trace, native, sidecar, mode>>, at' # "short",
           SetupLeft' <=> SetupLeft
    PROVE  CleanCalls'
  BY DEF CleanCalls, SetupLeft, WholeMarkers

LEMMA CleanCallsGrow ==
    ASSUME RingTypes, CleanCalls, NEW e \in CallRecord, e.result = "ok",
           trace' = Append(trace, e), mode' = mode, at' # "short",
           native' = IF e.call \in Markers THEN Append(native, e) ELSE native,
           mode = "shared" => sidecar' = sidecar \o e.rows,
           IF e.call = "setup"
           THEN SetupLeft /\ ~SetupLeft' /\ e.rows = <<>> /\ \A i \in DOMAIN trace : trace[i].rows = <<>>
           ELSE SetupLeft' <=> SetupLeft,
           mode = "shared" /\ (e.call = "enter" \/ \E r \in ToSet(e.rows) : r.kind = "cqe") =>
              JobAt(trace, Len(trace) + 1) = NoJob
    PROVE  CleanCalls'
  <1>. DEFINE n == Len(trace)
  <1>0. trace \in Seq(CallRecord)
    BY DEF RingTypes
  <1>1. /\ n \in Nat /\ DOMAIN trace = 1 .. n /\ DOMAIN trace' = 1 .. n + 1 /\ Len(trace') = n + 1
        /\ trace'[n + 1] = e /\ \A i \in 1 .. n : trace'[i] = trace[i]
    BY <1>0, TraceLonger
  <1>2. \A i \in 1 .. n + 1 : JobAt(trace', i) = JobAt(trace, i)
    BY <1>0, JobLonger
  <1>3. Places(trace', {"setup"})
          = Places(trace, {"setup"}) \cup (IF e.call = "setup" THEN {n + 1} ELSE {})
    <2>1. e.call \in {"setup"} <=> e.call = "setup"
      OBVIOUS
    <2>2. Places(trace', {"setup"})
            = Places(trace, {"setup"}) \cup (IF e.call \in {"setup"} THEN {n + 1} ELSE {})
      BY <1>0, PlacesLonger
    <2>. QED BY <2>1, <2>2
  <1>4. Places(trace, {"setup"}) \subseteq 1 .. n
    BY <1>1 DEF Places
  <1>5. MarkersOf(trace') = IF e.call \in Markers THEN Append(MarkersOf(trace), e) ELSE MarkersOf(trace)
    BY <1>0, MarkersLonger
  <1>6. Rows(trace') = Rows(trace) \o e.rows
    BY <1>0, RowsLonger
  <1>. HIDE DEF n
  <1>7. /\ \A i \in 1 .. n + 1 : i \in 1 .. n \/ i = n + 1
        /\ \A i \in 1 .. n : i \in 1 .. n + 1 /\ i < n + 1
        /\ n + 1 \in 1 .. n + 1
    BY <1>1
  <1>8. \A i \in DOMAIN trace' : trace'[i].result = "ok"
    BY <1>1, <1>7 DEF CleanCalls
  <1>9. WholeMarkers'
    BY <1>5 DEF CleanCalls, WholeMarkers
  <1>10. mode' = "shared" => Rows(trace') = sidecar'
    BY <1>6 DEF CleanCalls
  <1>11. IF SetupLeft' THEN Places(trace', {"setup"}) = {} ELSE OneRing(trace')
    <2>1. CASE e.call = "setup"
      <3>1. Places(trace', {"setup"}) = {n + 1}
        BY <1>3, <2>1 DEF CleanCalls, SetupLeft
      <3>. QED BY <1>1, <1>7, <1>8, <2>1, <3>1 DEF OneRing
    <2>2. CASE e.call # "setup" /\ SetupLeft
      BY <1>3, <2>2 DEF CleanCalls, SetupLeft
    <2>3. CASE e.call # "setup" /\ ~SetupLeft
      <3>1. OneRing(trace) /\ Places(trace', {"setup"}) = Places(trace, {"setup"})
        BY <1>3, <2>3 DEF CleanCalls, SetupLeft
      <3>. QED BY <1>1, <1>7, <1>8, <2>3, <3>1 DEF OneRing
    <2>. QED BY <2>1, <2>2, <2>3
  <1>12. ASSUME NEW i \in Places(trace', {"setup"}), NEW k \in DOMAIN trace', trace'[k].rows # <<>>
         PROVE  i < k
    <2>1. CASE e.call = "setup"
      BY <1>1, <1>7, <1>12, <2>1
    <2>2. CASE e.call # "setup"
      <3>1. i \in Places(trace, {"setup"})
        BY <1>3, <2>2
      <3>2. CASE k \in 1 .. n
        BY <1>1, <1>12, <3>1, <3>2 DEF CleanCalls
      <3>3. CASE k = n + 1
        BY <1>4, <1>7, <3>1, <3>3
      <3>. QED BY <1>1, <1>7, <3>2, <3>3
    <2>. QED BY <2>1, <2>2
  <1>13. ASSUME mode' = "shared", NEW i \in DOMAIN trace',
                trace'[i].call = "enter" \/ \E r \in ToSet(trace'[i].rows) : r.kind = "cqe"
         PROVE  JobAt(trace', i) = NoJob
    <2>1. CASE i \in 1 .. n
      <3>1. trace'[i] = trace[i] /\ JobAt(trace', i) = JobAt(trace, i)
        BY <1>1, <1>2, <1>7, <2>1
      <3>. QED BY <1>1, <1>13, <2>1, <3>1 DEF CleanCalls
    <2>2. CASE i = n + 1
      <3>1. trace'[i] = e /\ JobAt(trace', i) = JobAt(trace, n + 1)
        BY <1>1, <1>2, <1>7, <2>2
      <3>. QED BY <1>13, <3>1 DEF n
    <2>. QED BY <1>1, <1>7, <2>1, <2>2
  <1>. QED BY <1>8, <1>9, <1>10, <1>11, <1>12, <1>13 DEF CleanCalls, SetupLeft

LEMMA OpensAre ==
    /\ Opens \in Seq(CallRecord)
    /\ Head(Opens).call = "setup" => \A e \in ToSet(Tail(Opens)) : e.call # "setup"
    /\ \E e \in ToSet(Opens) : e.call = "setup"
    /\ \A e \in ToSet(Tail(Tail(Opens))) : FALSE
    /\ \E e \in ToSet(Opens) : e.call = "open"
  <1>. DEFINE a == [Call("open") EXCEPT !.fd = FileFd, !.file = "slots"]
              b == [Call("setup") EXCEPT !.fd = RingFd]
  <1>1. /\ Call("open") \in CallRecord /\ Call("open").call = "open"
        /\ Call("setup") \in CallRecord /\ Call("setup").call = "setup"
    BY CallKinds DEF CallNames
  <1>2. a \in CallRecord /\ b \in CallRecord /\ a.call = "open" /\ b.call = "setup"
    <2>1. 3 \in Int /\ 4 \in Int /\ "slots" \in Files
      BY DEF Files
    <2>. QED BY <1>1, <2>1 DEF CallRecord, FileFd, RingFd
  <1>3. Opens = IF mode = "shared" THEN <<a, b>> ELSE <<b, a>>
    BY DEF Opens
  <1>. HIDE DEF a, b
  <1>4. ASSUME NEW x, NEW y
        PROVE  /\ Head(<<x, y>>) = x /\ Tail(<<x, y>>) = <<y>> /\ Tail(Tail(<<x, y>>)) = <<>>
               /\ ToSet(<<x, y>>) = {x, y} /\ ToSet(<<y>>) = {y}
    BY DEF ToSet
  <1>5. <<a, b>> \in Seq(CallRecord) /\ <<b, a>> \in Seq(CallRecord)
    BY <1>2
  <1>. QED BY <1>2, <1>3, <1>4, <1>5, NoCalls

LEMMA CleanCallsPerformed ==
    ASSUME KernelInv, CallsKnown, JobsRight, CleanPlaces, CleanCalls, Perform,
           trace' = Append(trace, Head(todo))
    PROVE  CleanCalls'
  <1>. DEFINE e == Head(todo)
  <1>0. /\ RingTypes /\ trace \in Seq(CallRecord) /\ sidecar \in Seq(RowRecord) /\ BatchKnown
        /\ HelperKnown /\ TodoKnown
    BY DEF KernelInv, RingTypes
  <1>1. /\ todo # <<>> /\ Running /\ e.call # "enter" /\ Effects(e) /\ todo' = Tail(todo)
        /\ UNCHANGED <<mode, at>>
    BY DEF Perform, started
  <1>2. /\ e \in CallRecord /\ KnownCall(e) /\ e.result = "ok" /\ e \in ToSet(todo)
        /\ ToSet(todo) = {e} \cup ToSet(Tail(todo))
    BY <1>0, <1>1, HeadKnown
  <1>3. at = "gathering" => /\ e.rows = <<>> /\ number = 0
                            /\ todo = Opens \/ todo = Tail(Opens)
    BY <1>1, NextOpening
  <1>4. at = "submitting" => /\ e.call # "setup" /\ \A r \in ToSet(e.rows) : r.kind = "sqe"
    BY <1>1, NextSubmission
  <1>5. at \in {"draining", "failed", "succeeded"} => e.call = "write"
    BY <1>1, NextCompletion
  <1>6. at \in {"gathering", "submitting", "draining", "failed", "succeeded"}
    BY <1>0, <1>1, HeadIs
  <1>7. e.call = "setup" => ~SetupLeft'
    <2>1. CASE todo = Opens
      BY <1>1, <2>1, OpensAre DEF SetupLeft
    <2>2. CASE todo = Tail(Opens)
      BY <1>1, <2>2, OpensAre DEF SetupLeft
    <2>. QED BY <1>3, <1>4, <1>5, <1>6, <2>1, <2>2
  <1>8. e.call # "setup" => (SetupLeft' <=> SetupLeft)
    BY <1>1, <1>2 DEF SetupLeft
  <1>9. e.call = "setup" => SetupLeft
    BY <1>2 DEF SetupLeft
  <1>. HIDE DEF e
  <1>10. e.call = "setup" => e.rows = <<>> /\ \A i \in DOMAIN trace : trace[i].rows = <<>>
    <2>. SUFFICES ASSUME e.call = "setup", NEW i \in DOMAIN trace
                  PROVE  trace[i].rows = <<>>
      BY <1>3, <1>4, <1>5, <1>6
    <2>1. number = 0
      BY <1>3, <1>4, <1>5, <1>6
    <2>2. trace[i].rows \in Seq(RowRecord)
      <3>1. trace[i] \in CallRecord
        BY <1>0, LenProperties
      <3>. QED BY <3>1 DEF CallRecord
    <2>3. ASSUME trace[i].rows # <<>> PROVE FALSE
      <3>1. Len(trace[i].rows) # 0 /\ Len(trace[i].rows) \in Nat
            /\ DOMAIN trace[i].rows = 1 .. Len(trace[i].rows)
        BY <2>2, <2>3, EmptySeq, LenProperties
      <3>2. trace[i].rows[1] \in ToSet(trace[i].rows)
        BY <3>1 DEF ToSet
      <3>3. trace[i].rows[1].batch \in 1 .. 0
        BY <2>1, <3>2 DEF CleanPlaces
      <3>. QED BY <3>3
    <2>. QED BY <2>3
  <1>11. mode = "shared" => sidecar' = sidecar \o e.rows
    <2>1. CASE e.call = "write"
      BY <1>1, <2>1 DEF Effects
    <2>2. CASE e.call # "write"
      <3>1. sidecar' = sidecar /\ e.rows = <<>>
        BY <1>1, <1>2, <2>2 DEF Effects, KnownCall
      <3>. QED BY <1>0, <3>1, ConcatEmptySeq
    <2>. QED BY <2>1, <2>2
  <1>12. native' = IF e.call \in Markers THEN Append(native, e) ELSE native
    BY <1>1 DEF Effects
  <1>13. mode = "shared" /\ (e.call = "enter" \/ \E r \in ToSet(e.rows) : r.kind = "cqe") =>
              JobAt(trace, Len(trace) + 1) = NoJob
    <2>. SUFFICES ASSUME mode = "shared", \E r \in ToSet(e.rows) : r.kind = "cqe"
                  PROVE  JobAt(trace, Len(trace) + 1) = NoJob
      BY <1>1
    <2>1. at # "submitting"
      BY <1>4
    <2>2. InHand = NoJob
      BY <2>1 DEF InHand
    <2>3. WholeMarkers
      BY DEF CleanCalls
    <2>. QED BY <1>1, <2>2, <2>3 DEF JobsRight
  <1>14. at' # "short"
    BY <1>1 DEF CleanCalls
  <1>15. trace' = Append(trace, e) /\ mode' = mode
    BY <1>1 DEF e
  <1>. QED BY <1>0, <1>2, <1>7, <1>8, <1>9, <1>10, <1>11, <1>12, <1>13, <1>14, <1>15, CleanCallsGrow

LEMMA CleanCallsStep ==
    ASSUME KernelInv, KernelInv', CallsKnown, JobsRight, CleanPlaces, CleanCalls,
           [RingNext]_ringVars, faults' = {}
    PROVE  CleanCalls'
  <1>0. /\ RingTypes /\ BatchKnown /\ HelperKnown /\ TodoKnown /\ number \in Nat
        /\ sidecar \in Seq(RowRecord)
    BY DEF KernelInv, RingTypes
  <1>1. CASE Perform
    BY <1>1, NoFault, CleanCallsPerformed
  <1>2. CASE Return
    <2>1. /\ trace' = Append(trace, Enter) /\ at = "waiting" /\ at' = "draining" /\ Running
          /\ UNCHANGED <<mode, todo, sidecar, native>>
      BY <1>2, NoFault DEF Return, CleanCalls, started
    <2>. DEFINE e == Enter
    <2>2. e.rows = <<>> /\ e \in CallRecord /\ e.call = "enter" /\ e.result = "ok"
      BY <1>0, EnterIs
    <2>. HIDE DEF e
    <2>3. sidecar' = sidecar \o e.rows
      BY <1>0, <2>1, <2>2, ConcatEmptySeq
    <2>4. e.call \notin Markers /\ e.call # "setup"
      BY <2>2 DEF Markers
    <2>5. mode = "shared" => JobAt(trace, Len(trace) + 1) = NoJob
      <3>1. InHand = NoJob
        BY <2>1 DEF InHand
      <3>2. WholeMarkers
        BY DEF CleanCalls
      <3>. QED BY <2>1, <3>1, <3>2 DEF JobsRight
    <2>6. SetupLeft' <=> SetupLeft
      BY <2>1 DEF SetupLeft
    <2>7. trace' = Append(trace, e) /\ mode' = mode /\ at' # "short" /\ native' = native
      BY <2>1 DEF e
    <2>. QED BY <1>0, <2>2, <2>3, <2>4, <2>5, <2>6, <2>7, CleanCallsGrow
  <1>3. CASE Submit
    <2>1. /\ UNCHANGED <<trace, native, sidecar, mode, batch, taken>> /\ todo = <<>>
          /\ at = "gathering"
          /\ \/ UNCHANGED <<at, todo>>
             \/ /\ batch # <<>> /\ at' = "submitting" /\ number' = number + 1
                /\ todo' = PlanOf(number + 1)
      BY <1>3 DEF Submit, Gathering, output, started, PlanOf
    <2>2. ~SetupLeft
      BY <2>1, NoCalls DEF SetupLeft
    <2>3. ASSUME batch # <<>>, number' = number + 1, todo' = PlanOf(number + 1), at' = "submitting"
          PROVE  ~SetupLeft'
      <3>. DEFINE n == number + 1
      <3>1. n \in Nat /\ (mode = "helper" => n = 1)
        <4>1. mode = "helper" => number = 0
          BY <1>0, <2>1 DEF HelperKnown
        <4>. QED BY <1>0, <4>1
      <3>2. todo' = PlanOf(n) /\ todo' \in Seq(CallRecord)
        BY <2>3 DEF KernelInv, RingTypes
      <3>. HIDE DEF n
      <3>3. \A p \in 1 .. Len(PlanOf(n)) : PlanOf(n)[p].call # "setup"
        BY <1>0, <2>3, <3>1, PlanRow
      <3>4. DOMAIN todo' = 1 .. Len(PlanOf(n))
        BY <3>2, LenProperties
      <3>5. ~ \E e \in ToSet(todo') : e.call = "setup"
        BY <3>2, <3>3, <3>4 DEF ToSet
      <3>. QED BY <3>5 DEF SetupLeft
    <2>4. at' # "short"
      BY <2>1
    <2>5. SetupLeft' <=> SetupLeft
      BY <2>1, <2>2, <2>3 DEF SetupLeft
    <2>. QED BY <2>1, <2>4, <2>5, CleanCallsStay
  <1>4. CASE EnterRing
    <2>1. /\ UNCHANGED <<trace, native, sidecar, mode>> /\ at' = "waiting"
          /\ todo = <<Enter>> /\ todo' = <<>>
      BY <1>4, NoFault DEF EnterRing, output, started
    <2>2. Enter.call = "enter"
      BY <1>0, EnterIs
    <2>. HIDE DEF Enter
    <2>3. ~SetupLeft /\ ~SetupLeft'
      BY <2>1, <2>2, NoCalls, OneRow DEF SetupLeft
    <2>4. at' # "short"
      BY <2>1
    <2>. QED BY <2>1, <2>3, <2>4, CleanCallsStay
  <1>5. CASE Drain \/ DrainHelper
    <2>1. /\ UNCHANGED <<trace, native, sidecar, mode>> /\ todo = <<>> /\ at = "draining"
          /\ at' \in {"draining", "failed", "succeeded"}
          /\ todo' = todo \/ \E rows : todo' = <<WriteOf(rows)>>
      BY <1>5 DEF Drain, DrainHelper, Draining, Flush, output, started
    <2>2. ~SetupLeft
      BY <2>1, NoCalls DEF SetupLeft
    <2>3. ASSUME NEW rows, todo' = <<WriteOf(rows)>> PROVE ~SetupLeft'
      <3>1. WriteOf(rows).call = "write"
        BY WriteCall
      <3>. HIDE DEF WriteOf
      <3>. QED BY <2>3, <3>1, OneRow DEF SetupLeft
    <2>4. at' # "short"
      BY <2>1
    <2>5. SetupLeft' <=> SetupLeft
      BY <2>1, <2>2, <2>3 DEF SetupLeft
    <2>. QED BY <2>1, <2>4, <2>5, CleanCallsStay
  <1>6. CASE Dispatcher \/ Take \/ Finish \/ ExitHelper \/ CompleteOperation \/ UNCHANGED ringVars
    <2>1. /\ UNCHANGED <<trace, native, sidecar, mode, todo>>
          /\ at' = at \/ at' = "gathering"
      BY <1>6 DEF Dispatcher, SendJob, CloseInput, Take, Finish, ExitHelper, CompleteOperation,
                  ringVars, output, started
    <2>2. at' # "short"
      BY <2>1 DEF CleanCalls
    <2>. QED BY <2>1, <2>2, CleanCallsStay DEF SetupLeft
  <1>. QED BY <1>1, <1>2, <1>3, <1>4, <1>5, <1>6, NoFault DEF RingNext, Program

-----------------------------------------------------------------------------
(* An enter counts the submissions of its batch, which have been written. *)
LEMMA BatchCounted ==
    ASSUME KernelInv, CallsKnown, CleanPlaces, CleanRows, at = "waiting"
    PROVE  Cardinality(SqesOf(Rows(trace), number)) = 2 * Len(batch) /\ 2 * Len(batch) >= 1
  <1>. DEFINE S == SqesOf(Rows(trace), number)
  <1>0. RingTypes /\ BatchKnown /\ todo = <<>> /\ trace \in Seq(CallRecord)
    BY DEF KernelInv, TodoKnown, RingTypes
  <1>1. \A r \in S : r \in Written /\ r.kind = "sqe" /\ r.batch = number
    BY DEF SqesOf, Written
  <1>2. \A r \in Written : r.kind = "sqe" /\ r.batch = number => r \in S
    BY DEF SqesOf, Written
  <1>. HIDE DEF S
  <1>3. \A r \in S : r.id \in BatchIds
    <2>. SUFFICES ASSUME NEW r \in S PROVE r.id \in BatchIds
      OBVIOUS
    <2>1. r.id \in 1 .. 2 * taken /\ r.batch \in 1 .. number /\ number \in Nat
      BY <1>1, WrittenKnown, <1>0 DEF RingTypes
    <2>2. ~(r.batch < number)
      BY <1>1, <2>1
    <2>3. ~Old(r.id)
      BY <1>1, <2>2 DEF CleanRows
    <2>. QED BY <2>1, <2>3, BatchOld
  <1>4. \A r, s \in S : r.id = s.id => r = s
    <2>. SUFFICES ASSUME NEW r \in S, NEW s \in S, r.id = s.id PROVE r = s
      OBVIOUS
    <2>1. PICK a \in DOMAIN Rows(trace) : Rows(trace)[a] = r
      BY <1>1 DEF Written, ToSet
    <2>2. PICK b \in DOMAIN Rows(trace) : Rows(trace)[b] = s
      BY <1>1 DEF Written, ToSet
    <2>3. SameRow(Rows(trace)[a], Rows(trace)[b])
      BY <1>1, <2>1, <2>2 DEF SameRow
    <2>4. a = b
      BY <2>3 DEF CleanRows, Unrepeated
    <2>. QED BY <2>1, <2>2, <2>4
  <1>5. \A id \in BatchIds : \E r \in S : r.id = id
    <2>. SUFFICES ASSUME NEW id \in BatchIds PROVE \E r \in S : r.id = id
      OBVIOUS
    <2>1. PICK r \in Written : r.kind = "sqe" /\ r.id = id
      BY <1>0, NoCalls DEF CleanRows
    <2>2. ~Old(r.id)
      BY <2>1, BatchOld
    <2>3. r.batch = number
      BY <2>1, <2>2 DEF CleanRows
    <2>. QED BY <1>2, <2>1, <2>3
  <1>6. IsFiniteSet(BatchIds) /\ Cardinality(BatchIds) = 2 * Len(batch)
    BY <1>0, BatchIdsAre
  <1>7. Cardinality(S) = Cardinality(BatchIds)
    BY <1>3, <1>4, <1>5, <1>6, CountIds
  <1>8. Len(batch) \in Nat /\ Len(batch) # 0
    BY <1>0, LenProperties, EmptySeq DEF BatchKnown
  <1>. QED BY <1>6, <1>7, <1>8 DEF S

LEMMA EntersGrow ==
    ASSUME RingTypes, CleanEnters, NEW e \in CallRecord, trace' = Append(trace, e),
           NEW rank, rank = Rank(trace, Len(trace) + 1),
           e.call = "enter" => /\ e.count >= 1
                               /\ e.count = Cardinality(SqesOf(Rows(trace), rank + 1))
                               /\ Resource(trace, FileFd, Len(trace) + 1) # Unresolved,
           e.call = "enter" => e.rows = <<>>,
           \A r \in ToSet(e.rows) : r.kind = "sqe" => r.batch = rank + 1,
           file' = NoFile \/ Resource(trace', FileFd, Len(trace) + 2) # Unresolved,
           file' = NoFile => \E c \in ToSet(todo') : c.call = "open"
    PROVE  CleanEnters'
  <1>. DEFINE n == Len(trace)
              counted(rows, b) == Cardinality(SqesOf(rows, b))
  <1>0. trace \in Seq(CallRecord)
    BY DEF RingTypes
  <1>1. /\ n \in Nat /\ DOMAIN trace' = 1 .. n + 1 /\ Len(trace') = n + 1 /\ DOMAIN trace = 1 .. n
        /\ trace'[n + 1] = e /\ \A i \in 1 .. n : trace'[i] = trace[i]
    BY <1>0, TraceLonger
  <1>2. /\ Enters(trace') = IF e.call = "enter" THEN Enters(trace) \cup {n + 1} ELSE Enters(trace)
        /\ Enters(trace) \subseteq 1 .. n
    BY <1>0, EntersLonger
  <1>3. /\ \A i \in 1 .. n + 1 : Resource(trace', FileFd, i) = Resource(trace, FileFd, i)
    BY <1>0, ResourceLonger
  <1>4. \A i \in 1 .. n + 1 : Rank(trace', i) = Rank(trace, i)
    BY <1>0, RankLonger
  <1>5. ToSet(Rows(trace')) = ToSet(Rows(trace)) \cup ToSet(e.rows)
    BY <1>0, RowsLonger
  <1>6. \A i \in Enters(trace) : Rank(trace, i) \in Nat /\ rank \in Nat /\ Rank(trace, i) + 1 <= rank
    <2>1. \A i \in Enters(trace) : i < n + 1 /\ n + 1 \in Nat
      BY <1>1, <1>2
    <2>. QED BY <1>0, <2>1, RankGrows, EntersFinite
  <1>. HIDE DEF n
  <1>7. /\ \A i \in 1 .. n : i \in 1 .. n + 1
        /\ n + 1 \in 1 .. n + 1
    BY <1>1
  <1>8. ASSUME NEW i \in Enters(trace)
        PROVE  SqesOf(Rows(trace'), Rank(trace, i) + 1) = SqesOf(Rows(trace), Rank(trace, i) + 1)
    <2>1. Rank(trace, i) + 1 # rank + 1
      BY <1>6
    <2>. QED BY <1>5, <2>1 DEF SqesOf
  <1>9. ASSUME e.call = "enter"
        PROVE  SqesOf(Rows(trace'), rank + 1) = SqesOf(Rows(trace), rank + 1)
    <2>1. ToSet(e.rows) = {}
      BY <1>9, NoCalls
    <2>. QED BY <1>5, <2>1 DEF SqesOf
  <1>10. ASSUME NEW i \in Enters(trace')
         PROVE  /\ trace'[i].count >= 1
                /\ trace'[i].count = Cardinality(SqesOf(Rows(trace'), Rank(trace', i) + 1))
                /\ Resource(trace', FileFd, i) # Unresolved
    <2>1. CASE i \in Enters(trace)
      <3>1. i \in 1 .. n + 1 /\ trace'[i] = trace[i]
        BY <1>1, <1>2, <1>7, <2>1
      <3>2. Rank(trace', i) = Rank(trace, i) /\ Resource(trace', FileFd, i) = Resource(trace, FileFd, i)
        BY <1>3, <1>4, <3>1
      <3>. QED BY <1>8, <2>1, <3>1, <3>2 DEF CleanEnters
    <2>2. CASE e.call = "enter" /\ i = n + 1
      <3>1. Rank(trace', i) = rank /\ Resource(trace', FileFd, i) = Resource(trace, FileFd, n + 1)
        BY <1>3, <1>4, <1>7, <2>2 DEF n
      <3>. QED BY <1>1, <1>9, <2>2, <3>1 DEF n
    <2>. QED BY <1>2, <2>1, <2>2
  <1>11. Len(trace') + 1 = Len(trace) + 2
    BY <1>1 DEF n
  <1>. QED BY <1>10, <1>11 DEF CleanEnters

LEMMA EntersStay ==
    ASSUME CleanEnters, UNCHANGED <<trace, file>>,
           \A e \in ToSet(todo) : e.call = "open" => e \in ToSet(todo')
    PROVE  CleanEnters'
  BY DEF CleanEnters

LEMMA EntersPerformed ==
    ASSUME KernelInv, CallsKnown, FilesEarly, CleanPlaces, CleanEnters, Perform,
           trace' = Append(trace, Head(todo))
    PROVE  CleanEnters'
  <1>. DEFINE e == Head(todo)
              n == Len(trace)
              rank == Rank(trace, Len(trace) + 1)
  <1>0. /\ RingTypes /\ trace \in Seq(CallRecord) /\ n \in Nat /\ number \in Nat
        /\ BatchKnown /\ HelperKnown /\ TodoKnown
    BY LenProperties DEF KernelInv, RingTypes
  <1>1. /\ todo # <<>> /\ e.call # "enter" /\ Effects(e) /\ todo' = Tail(todo)
    BY DEF Perform
  <1>2. /\ e \in CallRecord /\ KnownCall(e) /\ e.result = "ok"
        /\ ToSet(todo) = {e} \cup ToSet(Tail(todo))
    BY <1>0, <1>1, HeadKnown
  <1>3. /\ at = "gathering" => e.rows = <<>>
        /\ at = "submitting" => \A r \in ToSet(e.rows) : r.batch = number
        /\ at \in {"draining", "failed", "succeeded"} => \A r \in ToSet(e.rows) : r.kind = "cqe"
    BY <1>1, NextOpening, NextSubmission, NextCompletion
  <1>4. at \in {"gathering", "submitting", "draining", "failed", "succeeded"}
    BY <1>0, <1>1, HeadIs
  <1>5. e.call = "close" => Tail(todo) # <<>> /\ Head(Tail(todo)).call = "open"
    BY <1>1, FileCalls
  <1>6. e.call = "close" => \E c \in ToSet(todo') : c.call = "open"
    <2>1. Tail(todo) \in Seq(CallRecord)
      BY <1>0, <1>1, HeadIs
    <2>2. Tail(todo) # <<>> => Head(Tail(todo)) \in ToSet(Tail(todo))
      BY <2>1, TailSet
    <2>. QED BY <1>1, <1>5, <2>2
  <1>7. Resource(trace', FileFd, n + 2)
          = IF ~Changes(e, FileFd) THEN Resource(trace, FileFd, n + 1)
            ELSE IF e.call = "open" /\ e.result = "ok" THEN e.file ELSE Unresolved
    BY <1>0, <1>2, ResourceLonger
  <1>8. rank = IF at \in {"submitting", "waiting"} THEN number - 1 ELSE number
    BY DEF CleanPlaces
  <1>9. trace' = Append(trace, e) /\ rank = Rank(trace, Len(trace) + 1)
    OBVIOUS
  <1>. HIDE DEF e, n, rank
  <1>10. \A r \in ToSet(e.rows) : r.kind = "sqe" => r.batch = rank + 1
    <2>1. CASE at = "gathering"
      BY <1>3, <2>1, NoCalls
    <2>2. CASE at = "submitting"
      <3>1. rank + 1 = number
        BY <1>0, <1>8, <2>2
      <3>. QED BY <1>3, <2>2, <3>1
    <2>3. CASE at \in {"draining", "failed", "succeeded"}
      BY <1>3, <2>3
    <2>. QED BY <1>4, <2>1, <2>2, <2>3
  <1>11. /\ file' = NoFile \/ Resource(trace', FileFd, n + 2) # Unresolved
         /\ file' = NoFile => \E c \in ToSet(todo') : c.call = "open"
    <2>1. CASE e.call = "open"
      <3>1. file' = e.file /\ e.file \in {"slots", "replacement"} /\ e.fd = FileFd
        BY <1>1, <1>2, <2>1 DEF Effects, KnownCall
      <3>2. Changes(e, FileFd)
        BY <2>1, <3>1 DEF Changes
      <3>3. Resource(trace', FileFd, n + 2) = e.file
        BY <1>2, <1>7, <2>1, <3>2
      <3>. QED BY <3>1, <3>3 DEF NoFile, Unresolved
    <2>2. CASE e.call = "close"
      BY <1>1, <1>6, <2>2 DEF Effects
    <2>3. CASE e.call \notin {"open", "close"}
      <3>1. file' = file
        BY <1>1, <2>3 DEF Effects
      <3>2. ~Changes(e, FileFd)
        <4>1. e.call = "setup" => e.fd # FileFd
          BY <1>2 DEF KnownCall, RingFd, FileFd
        <4>. QED BY <1>2, <2>3, <4>1 DEF Changes
      <3>3. file = NoFile => \E c \in ToSet(todo') : c.call = "open"
        BY <1>1, <1>2, <2>3 DEF CleanEnters
      <3>. QED BY <1>7, <3>1, <3>2, <3>3 DEF CleanEnters, n
    <2>. QED BY <2>1, <2>2, <2>3
  <1>. QED BY <1>0, <1>1, <1>2, <1>9, <1>10, <1>11, EntersGrow DEF n

LEMMA EntersStep ==
    ASSUME KernelInv, KernelInv', CallsKnown, FilesEarly, CleanPlaces, CleanRows, CleanEnters,
           at # "short", [RingNext]_ringVars, faults' = {}
    PROVE  CleanEnters'
  <1>0. /\ RingTypes /\ BatchKnown /\ HelperKnown /\ TodoKnown /\ number \in Nat
        /\ trace \in Seq(CallRecord)
    BY DEF KernelInv, RingTypes
  <1>1. CASE Perform
    BY <1>1, NoFault, EntersPerformed
  <1>2. CASE Return
    <2>. DEFINE e == Enter
    <2>1. /\ trace' = Append(trace, e) /\ at = "waiting" /\ UNCHANGED <<file, todo>>
      BY <1>2, NoFault DEF Return
    <2>2. /\ e \in CallRecord /\ e.call = "enter" /\ e.rows = <<>> /\ e.count = 2 * Len(batch)
          /\ e.result = "ok"
      BY <1>0, EnterIs
    <2>. HIDE DEF e
    <2>3. todo = <<>>
      BY <1>0, <2>1 DEF TodoKnown
    <2>4. file # NoFile /\ Resource(trace, FileFd, Len(trace) + 1) # Unresolved
      BY <2>3, NoCalls DEF CleanEnters
    <2>5. Resource(trace', FileFd, Len(trace) + 2) = Resource(trace, FileFd, Len(trace) + 1)
      <3>1. ~Changes(e, FileFd)
        BY <2>2 DEF Changes
      <3>. QED BY <1>0, <2>1, <2>2, <3>1, ResourceLonger
    <2>. DEFINE rank == Rank(trace, Len(trace) + 1)
    <2>6. rank + 1 = number
      BY <1>0, <2>1 DEF CleanPlaces
    <2>7. e.count = Cardinality(SqesOf(Rows(trace), number)) /\ e.count >= 1
      BY <2>1, <2>2, BatchCounted
    <2>8. rank = Rank(trace, Len(trace) + 1)
      OBVIOUS
    <2>9. \A r \in ToSet(e.rows) : FALSE
      BY <2>2, NoCalls
    <2>. HIDE DEF rank
    <2>. QED BY <1>0, <2>1, <2>2, <2>4, <2>5, <2>6, <2>7, <2>8, <2>9, EntersGrow
  <1>3. CASE Submit \/ Drain \/ DrainHelper
    <2>1. UNCHANGED <<trace, file>> /\ todo = <<>>
      BY <1>3 DEF Submit, Gathering, Drain, DrainHelper, Draining, output
    <2>. QED BY <2>1, NoCalls, EntersStay
  <1>4. CASE EnterRing
    <2>1. UNCHANGED <<trace, file>> /\ todo = <<Enter>>
      BY <1>4 DEF EnterRing, output
    <2>2. Enter.call = "enter"
      BY <1>0, EnterIs
    <2>. HIDE DEF Enter
    <2>. QED BY <2>1, <2>2, OneRow, EntersStay
  <1>5. CASE Dispatcher \/ Take \/ Finish \/ ExitHelper \/ CompleteOperation \/ UNCHANGED ringVars
    <2>1. UNCHANGED <<trace, file, todo>>
      BY <1>5 DEF Dispatcher, SendJob, CloseInput, Take, Finish, ExitHelper, CompleteOperation,
                  ringVars, output
    <2>. QED BY <2>1, EntersStay
  <1>. QED BY <1>1, <1>2, <1>3, <1>4, <1>5, NoFault DEF RingNext, Program

LEMMA CleanStart ==
    ASSUME RingInit
    PROVE  Clean
  <1>1. /\ trace = <<>> /\ sidecar = <<>> /\ native = <<>> /\ taken = 0 /\ batch = <<>>
        /\ at = "gathering" /\ number = 0 /\ file = NoFile /\ todo = Opens /\ exit = "running"
        /\ mode \in {"shared", "helper"} /\ seen = <<>>
    BY DEF RingInit
  <1>2. Len(<<>>) = 0 /\ DOMAIN <<>> = {} /\ ToSet(<<>>) = {} /\ 1 .. 0 = {} /\ 0 - 0 = 0
    BY NoCalls
  <1>3. Rows(trace) = <<>> /\ Written = {}
    <2>1. [i \in DOMAIN <<>> |-> <<>>[i].rows] = <<>>
      OBVIOUS
    <2>2. FlattenSeq(<<>>) = <<>>
      BY DEF FlattenSeq
    <2>. QED BY <1>1, <1>2, <2>1, <2>2 DEF Rows, Written
  <1>4. \A names : Places(trace, names) = {}
    BY <1>1, <1>2 DEF Places
  <1>5. SetupLeft /\ \E e \in ToSet(todo) : e.call = "open"
    BY <1>1, OpensAre DEF SetupLeft
  <1>6. CleanCalls
    <2>1. WholeMarkers
      BY <1>1, EmptyTrace DEF WholeMarkers
    <2>. QED BY <1>1, <1>2, <1>3, <1>4, <1>5, <2>1 DEF CleanCalls, SetupLeft
  <1>7. CleanPlaces
    <2>1. Rank(trace, Len(trace) + 1) = 0
      <3>1. Enters(trace) = {}
        BY <1>4 DEF Enters
      <3>2. {k \in Enters(trace) : k < Len(trace) + 1} = {}
        BY <3>1
      <3>. QED BY <3>2, FS_EmptySet DEF Rank
    <2>. QED BY <1>1, <1>2, <2>1 DEF CleanPlaces
  <1>8. CleanRows
    <2>1. Shown = 0
      BY <1>1 DEF Shown
    <2>2. Unrepeated(Rows(trace)) /\ Answering(Rows(trace))
      BY <1>2, <1>3 DEF Unrepeated, Answering
    <2>. QED BY <1>1, <1>2, <1>3, <2>1, <2>2 DEF CleanRows
  <1>9. CleanEnters
    BY <1>1, <1>4, <1>5 DEF CleanEnters, Enters
  <1>10. CleanAnswers
    BY <1>1, <1>2 DEF CleanAnswers
  <1>. QED BY <1>6, <1>7, <1>8, <1>9, <1>10 DEF Clean

LEMMA CleanStep ==
    ASSUME EvidenceInv, EvidenceInv', Clean, [RingNext]_ringVars, faults' = {}
    PROVE  Clean'
  <1>1. /\ KernelInv /\ KernelInv' /\ CallsKnown /\ JobsRight /\ FilesEarly
        /\ CleanCalls /\ CleanPlaces /\ CleanRows /\ CleanEnters /\ CleanAnswers
        /\ at # "short"
    BY DEF EvidenceInv, Clean, CleanCalls
  <1>2. CleanCalls'
    BY <1>1, CleanCallsStep
  <1>3. CleanPlaces'
    BY <1>1, PlacesStep
  <1>4. CleanRows'
    BY <1>1, RowsStep
  <1>5. CleanEnters'
    BY <1>1, EntersStep
  <1>6. CleanAnswers'
    BY <1>1, AnswersStep
  <1>. QED BY <1>2, <1>3, <1>4, <1>5, <1>6 DEF Clean

CleanInv == EvidenceInv /\ (faults = {} => Clean)

LEMMA CleanAlways == RingSpec => []CleanInv
  <1>1. RingInit => CleanInv
    BY EvidenceStart, CleanStart DEF CleanInv
  <1>2. ASSUME CleanInv, [RingNext]_ringVars PROVE CleanInv'
    <2>1. EvidenceInv /\ EvidenceInv'
      BY <1>2, EvidenceStep DEF CleanInv
    <2>2. ASSUME faults' = {} PROVE Clean'
      <3>1. faults = {}
        BY <1>2, <2>2, NoFault
      <3>2. Clean
        BY <1>2, <3>1 DEF CleanInv
      <3>. QED BY <1>2, <2>1, <2>2, <3>2, CleanStep
    <2>. QED BY <2>1, <2>2 DEF CleanInv
  <1>. QED BY <1>1, <1>2, PTL DEF RingSpec

-----------------------------------------------------------------------------
(* The places of a row and of the enter of its batch. *)
LEMMA EnterPlace ==
    ASSUME NEW tr \in Seq(CallRecord), NEW n \in 1 .. Cardinality(Enters(tr))
    PROVE  EnterOf(tr, n) \in Enters(tr) /\ Rank(tr, EnterOf(tr, n)) + 1 = n
  <1>1. Enters(tr) \subseteq 1 .. Len(tr) /\ Len(tr) \in Nat
    BY EntersFinite
  <1>2. \E i \in Enters(tr) : Cardinality({k \in Enters(tr) : k <= i}) = n
    BY <1>1, NthOf
  <1>3. /\ EnterOf(tr, n) \in Enters(tr)
        /\ Cardinality({k \in Enters(tr) : k <= EnterOf(tr, n)}) = n
    BY <1>2 DEF EnterOf
  <1>. QED BY <1>3, RankGrows

LEMMA WitnessPlace ==
    ASSUME KernelInv, CallsKnown, NEW r \in Written, NEW w, w = WitnessOf(trace, r)
    PROVE  /\ w \in DOMAIN trace /\ w \in Nat /\ trace[w].call = "write"
           /\ r \in ToSet(trace[w].rows) /\ trace[w].rows # <<>>
  <1>1. trace \in Seq(CallRecord)
    BY DEF KernelInv, RingTypes
  <1>2. PICK i \in Places(trace, {"write"}) : r \in ToSet(trace[i].rows)
    BY TraceRows DEF Written
  <1>3. \E k \in DOMAIN trace[i].rows : trace[i].rows[k] = r
    BY <1>2 DEF ToSet
  <1>4. w \in Places(trace, {"write"}) /\ \E k \in DOMAIN trace[w].rows : trace[w].rows[k] = r
    BY <1>3 DEF WitnessOf
  <1>5. r \in ToSet(trace[w].rows)
    BY <1>4 DEF ToSet
  <1>6. trace[w].rows # <<>>
    BY <1>5, NoCalls
  <1>. QED BY <1>1, <1>4, <1>5, <1>6, LenProperties DEF Places

LEMMA RowOrder ==
    ASSUME KernelInv, CallsKnown, CleanPlaces, NEW r \in Written, NEW p \in Enters(trace),
           r.batch = Rank(trace, p) + 1, NEW w, w = WitnessOf(trace, r)
    PROVE  IF r.kind = "sqe" THEN w < p ELSE w > p
  <1>0. trace \in Seq(CallRecord)
    BY DEF KernelInv, RingTypes
  <1>1. w \in DOMAIN trace /\ w \in Nat /\ trace[w].call = "write" /\ r \in ToSet(trace[w].rows)
    BY WitnessPlace
  <1>2. p \in Nat /\ trace[p].call = "enter" /\ p # w
    BY <1>0, <1>1, LenProperties DEF Enters, Places
  <1>. DEFINE x == Rank(trace, w)
              y == Rank(trace, p)
              b == r.batch
  <1>3. b = x + Lead(r) /\ x \in Nat /\ y \in Nat /\ b = y + 1
    BY <1>0, <1>1, EntersFinite DEF CleanPlaces
  <1>4. (p < w => y + 1 <= x) /\ (w <= p => x <= y)
    BY <1>0, <1>1, <1>2, RankGrows
  <1>. HIDE DEF x, y, b
  <1>5. CASE r.kind = "sqe"
    <2>1. b = x + 1
      BY <1>3, <1>5 DEF Lead
    <2>2. ~(p < w)
      BY <1>3, <1>4, <2>1
    <2>. QED BY <1>1, <1>2, <1>5, <2>2
  <1>6. CASE r.kind # "sqe"
    <2>1. b = x + 0
      BY <1>3, <1>6 DEF Lead
    <2>2. ~(w <= p)
      BY <1>3, <1>4, <2>1
    <2>. QED BY <1>1, <1>2, <1>6, <2>2
  <1>. QED BY <1>5, <1>6

-----------------------------------------------------------------------------
(* When the program has ended well, everything it did is in the trace. *)
LEMMA EndRows ==
    ASSUME EvidenceInv, Clean, exit = "0"
    PROVE  /\ todo = <<>> /\ at \notin {"submitting", "waiting"}
           /\ OneRing(trace)
           /\ number \in Nat /\ Cardinality(Enters(trace)) = number
           /\ \A s \in Written : s.kind = "sqe" =>
                 \E c \in Written : c.kind = "cqe" /\ c.id = s.id /\ c.batch = s.batch
           /\ Joinable(Rows(trace))
  <1>0. /\ KernelInv /\ CallsKnown /\ RingTypes /\ trace \in Seq(CallRecord) /\ number \in Nat
        /\ BatchKnown /\ HelperKnown /\ CompletionsKnown /\ taken \in Nat /\ mode \in {"shared", "helper"}
        /\ CleanCalls /\ CleanPlaces /\ CleanRows /\ CleanAnswers
    BY DEF EvidenceInv, KernelInv, RingTypes, Clean
  <1>1. /\ todo = <<>>
        /\ IF mode = "shared" THEN at = "gathering" /\ batch = <<>>
           ELSE at = "succeeded" /\ ToSet(batch) \subseteq answered
    BY <1>0 DEF CleanAnswers
  <1>2. OneRing(trace)
    BY <1>0, <1>1, NoCalls DEF CleanCalls
  <1>3. at \notin {"submitting", "waiting"}
    BY <1>1
  <1>4. Cardinality(Enters(trace)) = number
    BY <1>0, <1>3, RankGrows DEF CleanPlaces
  <1>5. ASSUME NEW s \in Written, s.kind = "sqe"
        PROVE  \E c \in Written : c.kind = "cqe" /\ c.id = s.id /\ c.batch = s.batch
    <2>1. CASE Old(s.id)
      BY <1>0, <1>5, <2>1 DEF CleanRows
    <2>2. CASE ~Old(s.id)
      <3>1. at # "gathering" /\ s.batch = number
        BY <1>0, <1>5, <2>2 DEF CleanRows
      <3>2. at = "succeeded"
        BY <1>1, <3>1
      <3>3. s.id \in BatchIds
        BY <1>0, <1>5, <2>2, WrittenKnown, BatchOld
      <3>4. AllReaped
        BY <1>0, <3>2 DEF CompletionsKnown
      <3>5. PICK p \in DOMAIN seen : seen[p].id = s.id
        BY <1>0, <3>3, <3>4, AllSeenAll
      <3>6. seen[p].kind = "cqe" /\ seen[p].batch = number
        BY <1>0 DEF CompletionsKnown
      <3>7. Shown = Len(seen)
        BY <1>1, <3>2 DEF Shown
      <3>8. p \in 1 .. Shown
        BY <1>0, <3>7, LenProperties DEF RingTypes
      <3>9. seen[p] \in Written
        BY <1>0, <3>8 DEF CleanRows
      <3>. QED BY <3>1, <3>5, <3>6, <3>9
    <2>. QED BY <2>1, <2>2
  <1>6. Joinable(Rows(trace))
    <2>1. Unrepeated(Rows(trace)) /\ Answering(Rows(trace))
      BY <1>0 DEF CleanRows
    <2>2. ASSUME NEW a \in DOMAIN Rows(trace), Rows(trace)[a].kind = "sqe"
          PROVE  \E c \in DOMAIN Rows(trace) :
                    Rows(trace)[c].kind = "cqe" /\ Rows(trace)[c].id = Rows(trace)[a].id
      <3>1. Rows(trace)[a] \in Written
        BY DEF Written, ToSet
      <3>2. PICK c \in Written : c.kind = "cqe" /\ c.id = Rows(trace)[a].id
        BY <1>5, <2>2, <3>1
      <3>3. PICK q \in DOMAIN Rows(trace) : Rows(trace)[q] = c
        BY DEF Written, ToSet
      <3>. QED BY <3>2, <3>3
    <2>. QED BY <2>1, <2>2 DEF Joinable, Unrepeated, Answering, SameRow
  <1>. QED BY <1>0, <1>1, <1>2, <1>3, <1>4, <1>5, <1>6

(* A batch has as many completions as submissions, of the same numbers. *)
LEMMA BatchPaired ==
    ASSUME EvidenceInv, Clean, exit = "0", NEW n \in 1 .. number,
           NEW sqes, sqes = {r \in ToSet(Rows(trace)) : r.kind = "sqe" /\ r.batch = n},
           NEW cqes, cqes = {r \in ToSet(Rows(trace)) : r.kind = "cqe" /\ r.batch = n},
           NEW enter, enter = EnterOf(trace, n)
    PROVE  /\ Cardinality(cqes) = Cardinality(sqes)
           /\ enter \in Enters(trace) /\ Rank(trace, enter) + 1 = n
           /\ FullBatch(trace[enter], Cardinality(sqes)) /\ sqes # {}
           /\ \A c \in cqes : \E s \in sqes : s.id = c.id
           /\ Resource(trace, FileFd, enter) # Unresolved
  <1>0. /\ KernelInv /\ CallsKnown /\ trace \in Seq(CallRecord) /\ Rows(trace) \in Seq(RowRecord)
        /\ CleanCalls /\ CleanPlaces /\ CleanRows /\ CleanEnters /\ taken \in Nat
    BY TraceRows DEF EvidenceInv, KernelInv, RingTypes, Clean
  <1>1. /\ Cardinality(Enters(trace)) = number /\ Joinable(Rows(trace))
        /\ \A s \in Written : s.kind = "sqe" =>
                 \E c \in Written : c.kind = "cqe" /\ c.id = s.id /\ c.batch = s.batch
    BY EndRows
  <1>2. enter \in Enters(trace) /\ Rank(trace, enter) + 1 = n
    BY <1>0, <1>1, EnterPlace
  <1>3. /\ \A r \in sqes : r \in Written /\ r.kind = "sqe" /\ r.batch = n
        /\ \A r \in cqes : r \in Written /\ r.kind = "cqe" /\ r.batch = n
        /\ \A r \in Written : /\ r.kind = "sqe" /\ r.batch = n => r \in sqes
                              /\ r.kind = "cqe" /\ r.batch = n => r \in cqes
    BY DEF Written
  <1>. DEFINE ids == {r.id : r \in sqes}
  <1>4. IsFiniteSet(ids)
    <2>1. ids \subseteq 1 .. 2 * taken
      BY <1>0, <1>3, WrittenKnown
    <2>2. IsFiniteSet(1 .. 2 * taken)
      BY <1>0, FS_Interval
    <2>. HIDE DEF ids
    <2>. QED BY <2>1, <2>2, FS_Subset
  <1>5. \A c \in cqes : \E s \in sqes : s.id = c.id
    BY <1>0, <1>3 DEF CleanRows
  <1>6. \A s \in sqes : \E c \in cqes : c.id = s.id
    BY <1>1, <1>3
  <1>7. /\ \A r, s \in sqes : r.id = s.id => r = s
        /\ \A r, s \in cqes : r.id = s.id => r = s
    <2>1. \A r, s \in Written : r.kind = s.kind /\ r.id = s.id => r = s
      BY <1>0, <1>1, RowsOnce DEF Written
    <2>. QED BY <1>3, <2>1
  <1>8. Cardinality(sqes) = Cardinality(ids)
    <2>1. \A s \in sqes : s.id \in ids
      OBVIOUS
    <2>2. \A t \in ids : \E s \in sqes : s.id = t
      OBVIOUS
    <2>. HIDE DEF ids
    <2>. QED BY <1>4, <1>7, <2>1, <2>2, CountIds
  <1>9. Cardinality(cqes) = Cardinality(ids)
    <2>1. \A c \in cqes : c.id \in ids
      BY <1>5
    <2>2. \A t \in ids : \E c \in cqes : c.id = t
      BY <1>6
    <2>. HIDE DEF ids
    <2>. QED BY <1>4, <1>7, <2>1, <2>2, CountIds
  <1>10. /\ trace[enter].count >= 1 /\ trace[enter].count = Cardinality(sqes)
         /\ Resource(trace, FileFd, enter) # Unresolved
    <2>1. SqesOf(Rows(trace), n) = sqes
      BY DEF SqesOf
    <2>. QED BY <1>0, <1>2, <2>1 DEF CleanEnters
  <1>11. trace[enter].result = "ok"
    BY <1>0, <1>2 DEF CleanCalls, Enters, Places
  <1>12. sqes # {}
    <2>. SUFFICES ASSUME sqes = {} PROVE FALSE
      OBVIOUS
    <2>1. Cardinality(sqes) = 0
      BY FS_EmptySet
    <2>. QED BY <1>10, <2>1
  <1>. QED BY <1>2, <1>5, <1>8, <1>9, <1>10, <1>11, <1>12 DEF FullBatch

LEMMA WorkerAccepted ==
    ASSUME EvidenceInv, Clean, exit = "0", mode = "shared"
    PROVE  Accepted
  <1>0. /\ KernelInv /\ CallsKnown /\ JobsRight /\ trace \in Seq(CallRecord)
        /\ Rows(trace) \in Seq(RowRecord)
        /\ CleanCalls /\ CleanPlaces /\ CleanRows /\ taken \in Nat
    BY TraceRows DEF EvidenceInv, KernelInv, RingTypes, Clean
  <1>1. /\ OneRing(trace) /\ Joinable(Rows(trace)) /\ Cardinality(Enters(trace)) = number
    BY EndRows
  <1>2. WholeMarkers /\ Rows(trace) = sidecar /\ WholeWrites(trace)
    BY <1>0 DEF CleanCalls, WholeWrites, Places
  <1>3. {r.batch : r \in ToSet(Rows(trace))} = 1 .. number
    <2>1. \A r \in ToSet(Rows(trace)) : r.batch \in 1 .. number
      BY <1>0, WrittenKnown DEF Written
    <2>2. \A n \in 1 .. number : \E r \in ToSet(Rows(trace)) : r.batch = n
      <3>. SUFFICES ASSUME NEW n \in 1 .. number
                    PROVE  \E r \in ToSet(Rows(trace)) : r.batch = n
        OBVIOUS
      <3>1. {r \in ToSet(Rows(trace)) : r.kind = "sqe" /\ r.batch = n} # {}
        BY BatchPaired
      <3>. QED BY <3>1
    <2>. QED BY <2>1, <2>2
  <1>4. ASSUME NEW n \in 1 .. number
        PROVE  BatchHolds(trace, n)
    <2>. DEFINE rows == ToSet(Rows(trace))
                sqes == {r \in rows : r.kind = "sqe" /\ r.batch = n}
                cqes == {r \in rows : r.kind = "cqe" /\ r.batch = n}
                enter == EnterOf(trace, n)
                before == {x \in rows : x.kind = "cqe" /\ x.batch = n - 1}
                earlier == {WitnessOf(trace, r) : r \in before}
    <2>1. /\ Cardinality(cqes) = Cardinality(sqes)
          /\ enter \in Enters(trace) /\ Rank(trace, enter) + 1 = n
          /\ FullBatch(trace[enter], Cardinality(sqes))
          /\ \A c \in cqes : \E s \in sqes : s.id = c.id
      BY BatchPaired
    <2>2. /\ \A r \in sqes : r \in Written /\ r.kind = "sqe" /\ r.batch = n
          /\ \A r \in cqes : r \in Written /\ r.kind = "cqe" /\ r.batch = n
          /\ \A r \in before : r \in Written /\ r.kind = "cqe" /\ r.batch = n - 1
      BY DEF Written
    <2>. HIDE DEF rows, sqes, cqes, enter, before
    <2>3. JobAt(trace, enter) = NoJob
      BY <1>0, <2>1 DEF CleanCalls, Enters, Places
    <2>4. ASSUME NEW r \in sqes
          PROVE  /\ JobAt(trace, WitnessOf(trace, r)) # NoJob
                 /\ WitnessOf(trace, r) < enter
                 /\ \A i \in earlier \cup Places(trace, {"setup"}) : i < WitnessOf(trace, r)
      <3>. DEFINE w == WitnessOf(trace, r)
      <3>1. /\ w \in DOMAIN trace /\ w \in Nat /\ r \in ToSet(trace[w].rows) /\ trace[w].rows # <<>>
            /\ r \in Written /\ r.kind = "sqe" /\ r.batch = n
        BY <1>0, <2>2, WitnessPlace
      <3>2. w < enter
        BY <1>0, <2>1, <3>1, RowOrder
      <3>. HIDE DEF w
      <3>3. JobAt(trace, w) # NoJob
        <4>1. PICK m \in {1, 2} : r.id = IdOf(JobAt(trace, w), m)
          BY <1>0, <1>2, <3>1 DEF JobsRight, OwnedRows
        <4>2. r.id \in 1 .. 2 * taken
          BY <1>0, <3>1, WrittenKnown
        <4>3. ~(IdOf(0, m) \in 1 .. 2 * taken)
          BY <1>0 DEF IdOf
        <4>. QED BY <4>1, <4>2, <4>3 DEF NoJob
      <3>4. \A i \in Places(trace, {"setup"}) : i < w
        BY <1>0, <3>1 DEF CleanCalls
      <3>5. ASSUME NEW c \in before PROVE WitnessOf(trace, c) < w
        <4>. DEFINE i == WitnessOf(trace, c)
        <4>1. /\ i \in DOMAIN trace /\ i \in Nat /\ c \in ToSet(trace[i].rows)
              /\ c.kind = "cqe" /\ c.batch = n - 1
          BY <1>0, <2>2, WitnessPlace
        <4>. HIDE DEF i
        <4>2. w <= i => n <= n - 1
          BY <1>0, <3>1, <4>1 DEF CleanPlaces
        <4>. QED BY <3>1, <4>1, <4>2 DEF i
      <3>. QED BY <3>2, <3>3, <3>4, <3>5 DEF w
    <2>5. ASSUME NEW r \in cqes
          PROVE  /\ WitnessOf(trace, r) > enter
                 /\ JobAt(trace, WitnessOf(trace, r)) = NoJob
      <3>. DEFINE w == WitnessOf(trace, r)
      <3>1. /\ w \in DOMAIN trace /\ w \in Nat /\ r \in ToSet(trace[w].rows)
            /\ r \in Written /\ r.kind = "cqe" /\ r.batch = n
        BY <1>0, <2>2, WitnessPlace
      <3>2. w > enter
        BY <1>0, <2>1, <3>1, RowOrder
      <3>. HIDE DEF w
      <3>3. JobAt(trace, w) = NoJob
        BY <1>0, <3>1 DEF CleanCalls
      <3>. QED BY <3>2, <3>3 DEF w
    <2>. QED BY <2>1, <2>3, <2>4, <2>5
              DEF BatchHolds, rows, sqes, cqes, enter, before
  <1>. QED BY <1>1, <1>2, <1>3, <1>4 DEF Accepted, SharedAccepts

LEMMA HelperAccepted ==
    ASSUME EvidenceInv, Clean, exit = "0", mode = "helper"
    PROVE  Accepted
  <1>0. /\ KernelInv /\ CallsKnown /\ trace \in Seq(CallRecord) /\ HelperKnown
        /\ Rows(trace) \in Seq(RowRecord)
        /\ CleanCalls /\ CleanPlaces /\ CleanRows /\ CleanAnswers /\ taken \in Nat
    BY TraceRows DEF EvidenceInv, KernelInv, RingTypes, Clean
  <1>1. OneRing(trace) /\ Joinable(Rows(trace)) /\ Cardinality(Enters(trace)) = number
    BY EndRows
  <1>2. number = 1
    <2>1. at = "succeeded"
      BY <1>0 DEF CleanAnswers
    <2>. QED BY <1>0, <2>1 DEF HelperKnown
  <1>3. WholeWrites(trace)
    BY <1>0 DEF CleanCalls, WholeWrites, Places
  <1>. DEFINE rows == Rows(trace)
              enter == EnterOf(trace, 1)
              sqes == {r \in ToSet(Rows(trace)) : r.kind = "sqe" /\ r.batch = 1}
              ids == {r.id : r \in sqes}
  <1>4. /\ enter \in Enters(trace) /\ Rank(trace, enter) + 1 = 1
        /\ FullBatch(trace[enter], Cardinality(sqes))
    <2>1. 1 \in 1 .. number
      BY <1>2
    <2>. QED BY <2>1, BatchPaired
  <1>5. \A r \in Written : r.kind \in {"sqe", "cqe"} /\ r.batch = 1
                           /\ (r.kind = "sqe" => r \in sqes /\ r.id \in 1 .. 2 * taken)
    <2>1. \A b \in 1 .. 1 : b = 1
      OBVIOUS
    <2>2. \A r \in Written : r.kind \in {"sqe", "cqe"} /\ r.batch \in 1 .. 1
                             /\ (r.kind = "sqe" => r.id \in 1 .. 2 * taken)
      BY <1>0, <1>2, WrittenKnown
    <2>. QED BY <2>1, <2>2 DEF Written
  <1>6. \A r \in sqes : r \in Written /\ r.kind = "sqe"
    BY DEF Written
  <1>. HIDE DEF enter, sqes
  <1>7. ASSUME NEW r \in ToSet(rows)
        PROVE  IF r.kind = "sqe" THEN WitnessOf(trace, r) < enter ELSE WitnessOf(trace, r) > enter
    <2>1. r \in Written
      BY DEF Written
    <2>2. r.batch = Rank(trace, enter) + 1
      BY <1>4, <1>5, <2>1
    <2>. QED BY <1>0, <1>4, <2>1, <2>2, RowOrder
  <1>8. IsFiniteSet(ids)
    <2>1. ids \subseteq 1 .. 2 * taken
      BY <1>5, <1>6
    <2>2. IsFiniteSet(1 .. 2 * taken)
      BY <1>0, FS_Interval
    <2>. HIDE DEF ids
    <2>. QED BY <2>1, <2>2, FS_Subset
  <1>9. Cardinality(sqes) = Cardinality(ids)
    <2>1. (\A s \in sqes : s.id \in ids) /\ (\A t \in ids : \E s \in sqes : s.id = t)
      OBVIOUS
    <2>2. \A r, s \in sqes : r.id = s.id => r = s
      BY <1>0, <1>1, <1>6, RowsOnce DEF Written
    <2>. HIDE DEF ids
    <2>. QED BY <1>8, <2>1, <2>2, CountIds
  <1>10. Cardinality(Joined(rows)) = Cardinality(ids)
    <2>1. \A o \in Joined(rows) : o.id \in ids
      <3>. SUFFICES ASSUME NEW o \in Joined(rows) PROVE o.id \in ids
        OBVIOUS
      <3>1. PICK s \in ToSet(rows) : s.kind = "sqe" /\ s.id = o.id
        BY <1>0, JoinedIs
      <3>2. s \in sqes
        BY <1>5, <3>1 DEF Written
      <3>. QED BY <3>1, <3>2
    <2>2. \A t \in ids : \E o \in Joined(rows) : o.id = t
      <3>. SUFFICES ASSUME NEW s \in sqes PROVE \E o \in Joined(rows) : o.id = s.id
        OBVIOUS
      <3>1. s \in ToSet(rows) /\ s.kind = "sqe"
        BY <1>6 DEF Written
      <3>. QED BY <1>0, <1>1, <3>1, JoinedAll
    <2>3. \A o, q \in Joined(rows) : o.id = q.id => o = q
      BY <1>0, <1>1, JoinedOnce
    <2>. HIDE DEF ids, rows
    <2>. QED BY <1>8, <2>1, <2>2, <2>3, CountIds
  <1>11. FullBatch(trace[enter], Cardinality(Joined(rows)))
    BY <1>4, <1>9, <1>10
  <1>12. HelperAccepts(trace)
    BY <1>1, <1>2, <1>3, <1>7, <1>11 DEF HelperAccepts, enter
  <1>13. mode # "shared"
    OBVIOUS
  <1>. QED BY <1>12, <1>13 DEF Accepted

-----------------------------------------------------------------------------
(* The file of an operation is known when the program has ended well. *)
LEMMA FilesResolved ==
    ASSUME EvidenceInv, Clean, exit = "0", NEW owner, NEW x \in Operations(trace, owner)
    PROVE  x.file # Unresolved
  <1>0. /\ KernelInv /\ CallsKnown /\ Rows(trace) \in Seq(RowRecord) /\ CleanPlaces
        /\ \A r \in ToSet(Rows(trace)) : KnownRow(r)
    BY TraceRows DEF EvidenceInv, Clean
  <1>1. Joinable(Rows(trace))
    BY EndRows
  <1>2. PICK o \in Joined(Rows(trace)) :
           x = [id |-> o.id, op |-> o.op, job |-> owner[o.id], result |-> o.result,
                file |-> Resource(trace, o.fd, EnterOf(trace, (CHOOSE r \in ToSet(Rows(trace)) :
                                   r.kind = "sqe" /\ r.id = o.id).batch))]
    BY DEF Operations
  <1>3. PICK s, c \in ToSet(Rows(trace)) :
           /\ s.kind = "sqe" /\ c.kind = "cqe" /\ s.id = c.id
           /\ o.id = s.id /\ o.op = s.op /\ o.fd = s.fd /\ o.result = c.result
    BY <1>0, JoinedIs
  <1>4. (CHOOSE r \in ToSet(Rows(trace)) : r.kind = "sqe" /\ r.id = o.id) = s
    BY <1>0, <1>1, <1>3, SubmissionOf
  <1>. DEFINE place == EnterOf(trace, s.batch)
  <1>5. Resource(trace, FileFd, place) # Unresolved
    <2>1. s.batch \in 1 .. number
      BY <1>0, WrittenKnown DEF Written
    <2>. QED BY <2>1, BatchPaired
  <1>6. x.file = Resource(trace, o.fd, place)
    BY <1>2, <1>4
  <1>. HIDE DEF place
  <1>7. PICK j \in 1 .. taken, i \in {1, 2} : s.fd = FdOf(JobOps[i])
    BY <1>0, <1>3, JoinIsTrue
  <1>8. CASE o.fd = FileFd
    BY <1>5, <1>6, <1>8
  <1>9. CASE o.fd = BadFd
    <2>1. Resource(trace, BadFd, place) = Invalid
      BY DEF Resource
    <2>. QED BY <1>6, <1>9, <2>1 DEF Invalid, Unresolved
  <1>. QED BY <1>3, <1>7, <1>8, <1>9 DEF FdOf

(* A run in which nothing went wrong ends in a capture that is accepted, and  *)
(* that tells every operation with its file and every job that was answered,  *)
(* whatever the numbers of jobs and of the jobs of a batch, and in whatever   *)
(* order the kernel completed them.                                           *)
THEOREM CleanCapturesAccepted == RingSpec => []CleanRingAccepted
  <1>1. CleanInv => CleanRingAccepted
    <2>. SUFFICES ASSUME EvidenceInv, Clean, exit = "0"
                  PROVE  Accepted /\ Reported = truth /\ {o.job : o \in Reported} = answered
      BY DEF CleanInv, CleanRingAccepted
    <2>0. /\ KernelInv /\ RingTypes /\ BatchKnown /\ HelperKnown /\ CleanAnswers
          /\ mode \in {"shared", "helper"} /\ taken \in Nat
      BY DEF EvidenceInv, KernelInv, RingTypes, Clean
    <2>1. Accepted
      BY <2>0, WorkerAccepted, HelperAccepted
    <2>2. /\ \A x \in Reported : \E t \in truth :
                x = t \/ (x.file = Unresolved /\ [t EXCEPT !.file = Unresolved] = x)
          /\ \A t \in truth : \E o \in Joined(Rows(trace)) : o.id = t.id
      BY <2>0, <2>1, SharedReports, HelperReports DEF Reported
    <2>3. {o.id : o \in Reported} = {o.id : o \in Joined(Rows(trace))}
      BY ReportedIds DEF Reported, SharedOperations, HelperOperations
    <2>4. \A x \in Reported : x.file # Unresolved
      BY FilesResolved DEF Reported, SharedOperations, HelperOperations
    <2>5. Reported \subseteq truth
      BY <2>2, <2>4
    <2>6. truth \subseteq Reported
      <3>. SUFFICES ASSUME NEW t \in truth PROVE t \in Reported
        OBVIOUS
      <3>1. PICK x \in Reported : x.id = t.id
        BY <2>2, <2>3
      <3>2. x \in truth
        BY <2>5
      <3>3. \A u, v \in truth : u.id = v.id => u = v
        BY <2>0 DEF KernelInv, OperationsKnown
      <3>. QED BY <3>1, <3>2, <3>3
    <2>7. Reported = truth
      BY <2>5, <2>6
    <2>8. ASSUME NEW t \in truth PROVE t.job \in answered
      <3>1. PICK j \in 1 .. taken : t.job = j
        BY <2>0 DEF KernelInv, OperationsKnown, Outcome
      <3>2. CASE mode = "shared"
        <4>1. batch = <<>> /\ 1 .. (taken - Len(batch)) \subseteq answered
          BY <2>0, <3>2 DEF CleanAnswers
        <4>2. taken - Len(batch) = taken
          BY <2>0, <4>1, EmptySeq
        <4>. QED BY <3>1, <4>1, <4>2
      <3>3. CASE mode = "helper"
        <4>1. taken = Len(batch) /\ DOMAIN batch = 1 .. Len(batch)
          BY <2>0, <3>3, LenProperties DEF HelperKnown, BatchKnown
        <4>2. batch[j] = j
          BY <2>0, <3>1, <4>1 DEF BatchKnown
        <4>3. j \in ToSet(batch)
          BY <3>1, <4>1, <4>2 DEF ToSet
        <4>. QED BY <2>0, <3>1, <3>3, <4>3 DEF CleanAnswers
      <3>. QED BY <2>0, <3>2, <3>3
    <2>9. ASSUME NEW j \in answered PROVE \E t \in truth : t.job = j
      <3>1. 1 \in DOMAIN JobOps
        BY DEF JobOps
      <3>. QED BY <2>0, <3>1 DEF KernelInv, AnsweredIsPerformed
    <2>. QED BY <2>1, <2>7, <2>8, <2>9
  <1>. QED BY <1>1, CleanAlways, PTL
=============================================================================
