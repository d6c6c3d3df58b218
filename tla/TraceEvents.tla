----------------------------- MODULE TraceEvents -----------------------------
(***************************************************************************)
(* What the kernel trace shows of an instrumented process: markers, which  *)
(* the runtime bridges write to native-events.jsonl with one write each,   *)
(* and effects, every other system call.                                   *)
(*                                                                         *)
(* A capture can lose evidence.  written says what reached the native log  *)
(* (the whole line, a part of it, nothing) and captured whether the tracer *)
(* recorded the write.                                                     *)
(***************************************************************************)
EXTENDS Naturals, Sequences

NoJob == "no job"

Marker(kind, tid, request, operation) ==
    [kind |-> kind, tid |-> tid, request |-> request, operation |-> operation,
     span |-> 0, status |-> "ok", job |-> NoJob,
     written |-> "whole", captured |-> TRUE]

(* An effect; request is the context the program meant it for, which the     *)
(* trace does not show and the attributor only copies beside its own answer. *)
Effect(tid, owner) == Marker("EFFECT", tid, owner, 0)

(* A step that makes no system call. *)
Silence(tid) == Marker("NONE", tid, 0, 0)

(* What a write call of the marker can leave behind. *)
Delivered(marker) ==
    {[marker EXCEPT !.captured = c] : c \in BOOLEAN}
Undelivered(marker) ==
    UNION {Delivered([marker EXCEPT !.written = w]) : w \in {"partial", "failed"}}

FrontOf(s) == SubSeq(s, 1, Len(s) - 1)
LastOf(s) == s[Len(s)]
=============================================================================
