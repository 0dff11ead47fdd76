------------------------------- MODULE Observe -------------------------------
(***************************************************************************)
(* The tracing runtime of runtime/topo_observe.cpp: a stack of spans per   *)
(* thread, a flag that makes every call a no-op, and a sampling rate.  The *)
(* rate is "all", "none" or "some".                                        *)
(*                                                                         *)
(* open, straddled and wrong are history: the spans the program has begun  *)
(* on a thread and not ended, whether init or shutdown has happened while  *)
(* one was open, and the records written under another span's name.        *)
(***************************************************************************)
EXTENDS Naturals, Sequences, SequencesExt

CONSTANTS Threads, Spans,
          MaxOpen   \* bound on the spans a thread has open

VARIABLES initialized, rate, initPc, stack, open, straddled, wrong
observeVars == <<initialized, rate, initPc, stack, open, straddled, wrong>>

Rates == {"all", "some", "none"}
Idle  == "idle"

Init ==
  /\ initialized = FALSE /\ rate = "all" /\ initPc = [t \in Threads |-> Idle]
  /\ stack = [t \in Threads |-> << >>] /\ open = [t \in Threads |-> << >>]
  /\ straddled = [t \in Threads |-> FALSE] /\ wrong = FALSE

\* shouldSample draws a number only between the two ends of the range.
ShouldSample == CASE rate = "all" -> {TRUE} [] rate = "none" -> {FALSE} [] OTHER -> BOOLEAN

\* A defect: a span that is not sampled is not pushed.
SpanBegin_SampledOnly(t, s) ==
  /\ initPc[t] = Idle /\ Len(open[t]) < MaxOpen
  /\ open' = [open EXCEPT ![t] = Append(@, s)]
  /\ \E b \in ShouldSample :
       IF initialized /\ b
       THEN stack' = [stack EXCEPT ![t] = Append(@, [name |-> s, sampled |-> b])]
       ELSE UNCHANGED stack
  /\ UNCHANGED <<initialized, rate, initPc, straddled, wrong>>

SpanBegin(t, s) ==
  /\ initPc[t] = Idle /\ Len(open[t]) < MaxOpen
  /\ open' = [open EXCEPT ![t] = Append(@, s)]
  /\ IF initialized
     THEN \E b \in ShouldSample :
            stack' = [stack EXCEPT ![t] = Append(@, [name |-> s, sampled |-> b])]
     ELSE UNCHANGED stack
  /\ UNCHANGED <<initialized, rate, initPc, straddled, wrong>>

Popped(t) == IF stack[t] = << >> THEN stack[t] ELSE Front(stack[t])

\* The end of the innermost open span.  With tracing off a residual entry is
\* still popped; with tracing on a sampled entry is written out.
SpanEnd(t) ==
  /\ initPc[t] = Idle /\ open[t] # << >>
  /\ open' = [open EXCEPT ![t] = Front(@)]
  /\ stack' = [stack EXCEPT ![t] = Popped(t)]
  /\ wrong' = (wrong \/ /\ initialized /\ stack[t] # << >> /\ ~straddled[t]
                        /\ Last(stack[t]).sampled /\ Last(stack[t]).name # Last(open[t]))
  /\ straddled' = [straddled EXCEPT ![t] = @ /\ open'[t] # << >>]
  /\ UNCHANGED <<initialized, rate, initPc>>

Straddle == straddled' = [t \in Threads |-> straddled[t] \/ open[t] # << >>]

\* topo_trace_init: the exchange that makes tracing live, then the rate
InitExchange(t, r) ==
  /\ initPc[t] = Idle
  /\ IF initialized THEN UNCHANGED <<initialized, initPc, straddled>>
     ELSE initialized' = TRUE /\ initPc' = [initPc EXCEPT ![t] = r] /\ Straddle
  /\ UNCHANGED <<rate, stack, open, wrong>>

InitRate(t) ==
  /\ initPc[t] # Idle
  /\ rate' = initPc[t] /\ initPc' = [initPc EXCEPT ![t] = Idle]
  /\ UNCHANGED <<initialized, stack, open, straddled, wrong>>

Shutdown(t) ==
  /\ initPc[t] = Idle /\ initialized /\ initialized' = FALSE /\ Straddle
  /\ UNCHANGED <<rate, initPc, stack, open, wrong>>

Next == \E t \in Threads :
  \/ SpanEnd(t) \/ InitRate(t) \/ Shutdown(t)
  \/ \E s \in Spans : SpanBegin(t, s)
  \/ \E r \in Rates : InitExchange(t, r)

Spec == Init /\ [][Next]_observeVars

-----------------------------------------------------------------------------
\* However init and shutdown fall between the begins and the ends, a thread's
\* stack never holds more entries than it has spans open: cycles of init and
\* shutdown leave nothing behind.
SpansBalanced == \A t \in Threads : Len(stack[t]) <= Len(open[t])

\* A record written for a span that no init or shutdown fell into carries that
\* span's own name, whatever spans around it are sampled.
OwnSpanWritten == ~wrong
=============================================================================
