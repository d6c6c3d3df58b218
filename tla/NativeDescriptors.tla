------------------------- MODULE NativeDescriptors -------------------------
(***************************************************************************)
(* What a descriptor number means to the native ring evidence.  A debugger *)
(* stops a thread where it enters socket(), eventfd() or close() and where *)
(* it returns, and logs both; the kernel acts in between, unseen.          *)
(* native_socket_lifetimes.py links the target of a ring operation to the  *)
(* call that installed the number, native_close_epochs.py counts closes.   *)
(*                                                                         *)
(* The log is in the order of the stops, so its readers are run along with *)
(* the program.  As both scripts say, numbers are replaced by these calls  *)
(* only, in one table that all threads share.                              *)
(***************************************************************************)
EXTENDS Integers, FiniteSets

CONSTANTS Debugged,        \* threads under the debugger
          Numbers,         \* descriptor numbers
          MaxInstalls,     \* bound on what is installed
          MaxCloses,       \* bound on the closes entered
          MaxReferences    \* bound on the ring operations remembered

ASSUME NativeAssumption == Numbers \subseteq Nat /\ Numbers # {}

VARIABLES resource,     \* what the kernel has at a number, 0 for nothing
          installs,     \* installations, which number what they made
          closes,       \* number of closes entered
          doing,        \* the call a thread is stopped in or runs in
          controls,     \* include_controls: eventfd and epoll are linked too
          active,       \* the installation a number is linked to, or 0
          epochs,       \* successful closes of a number
          interrupted,  \* numbers a close of which failed, yet freed them
          evaded,       \* see FreeNumber
          references    \* ring operations remembered, with evidence and truth

nativeVars == <<resource, installs, closes, doing, controls, active, epochs,
                interrupted, evaded, references>>

(* since: numbers whose close was entered during this installation.          *)
(* around: threads whose close was under way all along.                      *)
Idle == [call |-> "none", done |-> FALSE, number |-> -1, made |-> 0,
         since |-> {}, around |-> {}]

Calls == {"socket", "control"}
Doing(t, calls) == doing[t].call \in calls
Closing(number) == {t \in Debugged : Doing(t, {"close"}) /\ doing[t].number = number}

NativeInit ==
    /\ resource = [n \in Numbers |-> 0]
    /\ installs = 0 /\ closes = 0
    /\ doing = [t \in Debugged |-> Idle]
    /\ controls \in BOOLEAN
    /\ active = [n \in Numbers |-> 0]
    /\ epochs = [n \in Numbers |-> 0]
    /\ interrupted = {} /\ evaded = FALSE
    /\ references = {}

EnterInstall(t) ==
    /\ Doing(t, {"none"}) /\ installs < MaxInstalls
    /\ \E c \in Calls :
          doing' = [doing EXCEPT ![t] = [Idle EXCEPT !.call = c,
                       !.around = {u \in Debugged : Doing(u, {"close"})}]]
    /\ UNCHANGED <<resource, installs, closes, controls, active, epochs,
                   interrupted, evaded, references>>

(* The kernel takes the lowest free number, or the call fails. *)
TakeNumber(t) ==
    LET free == {n \in Numbers : resource[n] = 0} IN
    /\ Doing(t, Calls) /\ ~doing[t].done
    /\ \/ /\ free = {} \/ installs = MaxInstalls
          /\ doing' = [doing EXCEPT ![t].done = TRUE]
          /\ UNCHANGED <<resource, installs>>
       \/ \E n \in free :
             /\ \A m \in free : n <= m
             /\ installs # MaxInstalls /\ installs' = installs + 1
             /\ resource' = [resource EXCEPT ![n] = installs']
             /\ doing' = [doing EXCEPT ![t].done = TRUE,
                             ![t].number = n, ![t].made = installs']
    /\ UNCHANGED <<closes, controls, active, epochs, interrupted, evaded,
                   references>>

(* Wrong: only closes that are not over are looked at. *)
OverlappedNow(t) == Closing(doing[t].number) # {}

(* A close of the number was entered meanwhile, or is not over. *)
Overlapped(t) == \/ doing[t].number \in doing[t].since
                 \/ Closing(doing[t].number) # {}

(* An installation that overlapped a close of its number is not projected. *)
ReturnInstall(t) ==
    LET c == doing[t]
        observed == c.number # -1 /\ (c.call = "socket" \/ controls)
    IN  /\ Doing(t, Calls) /\ c.done
        /\ active' = IF ~observed THEN active
                     ELSE [active EXCEPT ![c.number] =
                              IF Overlapped(t) THEN 0 ELSE c.made]
        /\ doing' = [doing EXCEPT ![t] = Idle]
        /\ UNCHANGED <<resource, installs, closes, controls, epochs,
                       interrupted, evaded, references>>

(* Any attempt to close invalidates the projection.  The program may close a *)
(* number twice, or one that it never got.                                   *)
EnterClose(t) ==
    /\ Doing(t, {"none"}) /\ closes < MaxCloses
    /\ closes' = closes + 1
    /\ \E n \in Numbers :
          /\ active' = [active EXCEPT ![n] = 0]
          /\ doing' = [u \in Debugged |->
                IF u = t THEN [Idle EXCEPT !.call = "close", !.number = n]
                ELSE IF Doing(u, Calls)
                THEN [doing[u] EXCEPT !.since = @ \cup {n}, !.around = @ \ {t}]
                ELSE doing[u]]
    /\ UNCHANGED <<resource, installs, controls, epochs, interrupted, evaded,
                   references>>

(* The kernel frees the number, whatever it will return.  evaded: it was     *)
(* given out by a call entered after this close, and not yet returned.       *)
FreeNumber(t) ==
    LET c == doing[t]
        r == resource[c.number]
    IN  /\ Doing(t, {"close"}) /\ ~c.done
        /\ resource' = [resource EXCEPT ![c.number] = 0]
        /\ doing' = [doing EXCEPT ![t].done = TRUE, ![t].made = r]
        /\ evaded' = \/ evaded
                     \/ r # 0 /\ \E u \in Debugged :
                           Doing(u, Calls) /\ doing[u].made = r /\ t \in doing[u].around
        /\ UNCHANGED <<installs, closes, controls, active, epochs, interrupted,
                       references>>

(* It returns 0 if it freed something; a signal may turn that into an error. *)
ReturnClose(t) ==
    LET c == doing[t] IN
    /\ Doing(t, {"close"}) /\ c.done
    /\ \/ /\ c.made # 0
          /\ epochs' = [epochs EXCEPT ![c.number] = @ + 1]
          /\ UNCHANGED interrupted
       \/ /\ interrupted' = IF c.made = 0 THEN interrupted
                            ELSE interrupted \cup {c.number}
          /\ UNCHANGED epochs
    /\ doing' = [doing EXCEPT ![t] = Idle]
    /\ UNCHANGED <<resource, installs, closes, controls, active, evaded, references>>

(* What the two scripts write of a ring operation on a number, and what it   *)
(* is on.  Any number may be named, at any time.                             *)
Linked(n) == active[n]
Epoch(n) == [count |-> epochs[n], unresolved |-> Closing(n) # {}]
Evidence(n) == [target |-> n, installation |-> Linked(n), epoch |-> Epoch(n),
                resource |-> resource[n]]

(* An operation on something open, for later ones to be compared with. *)
Reference(t) ==
    /\ Doing(t, {"none"}) /\ Cardinality(references) < MaxReferences
    /\ \E n \in Numbers :
          resource[n] # 0 /\ references' = references \cup {Evidence(n)}
    /\ UNCHANGED <<resource, installs, closes, doing, controls, active, epochs,
                   interrupted, evaded>>

NativeNext == \E t \in Debugged :
    \/ EnterInstall(t) \/ TakeNumber(t) \/ ReturnInstall(t)
    \/ EnterClose(t) \/ FreeNumber(t) \/ ReturnClose(t) \/ Reference(t)

NativeSpec == NativeInit /\ [][NativeNext]_nativeVars

-----------------------------------------------------------------------------
(* A ring operation linked to an installation is on the resource that call   *)
(* made, also where numbers are closed twice and reused under the debugger;  *)
(* and two operations of one close epoch are on one resource, unless a close *)
(* was under way or failed: native_socket_lifetimes.py 11-47,                *)
(* native_close_epochs.py 19-37.  Excluded (evaded): a close already under   *)
(* way when the installation was entered, which frees what that installed    *)
(* and returns before it.  Nothing in the log tells.                         *)
ReferencesNameResources ==
    \A n \in Numbers :
        LET now == Evidence(n) IN
        /\ ~evaded /\ now.installation # 0 => now.installation = now.resource
        /\ \A earlier \in references :
              /\ earlier.target = n /\ earlier.epoch = now.epoch
              /\ ~now.epoch.unresolved /\ n \notin interrupted
              /\ now.resource # 0
              => now.resource = earlier.resource
=============================================================================
