----------------------------- MODULE ArenaShapes -----------------------------
(* Scopes for ArenaPass: an owner with two allocations and any three uses of *)
(* them, and shapes with branches, helpers, start, end and landing pads.     *)
EXTENDS Naturals, Sequences

None == "none"

AI(op, def, args) == [op |-> op, def |-> def, args |-> args]
Make(v) == [op |-> "alloc", def |-> v, args |-> << >>, count |-> 1, size |-> 2, zero |-> FALSE]
Zeroed(v, n) == [Make(v) EXCEPT !.count = n, !.zero = TRUE]
Use(v)  == AI("use", "", <<v>>)
Drop(v) == AI("free", "", <<v>>)
Keep(v) == AI("keep", "", <<v>>)
Pick2(d, a, b) == AI("derive", d, <<a, b>>)
CallTo(f, args) == [op |-> "call", fn |-> f, def |-> "", args |-> args]
To(targets) == [op |-> "br", def |-> "", args |-> << >>, to |-> targets]
Invoke(args, targets) == [op |-> "invoke", def |-> "", args |-> args, to |-> targets]
Back == AI("ret", "", << >>)
Resume == AI("resume", "", << >>)
Land == AI("landingpad", "", << >>)

Owner(blocks) == [owner |-> blocks]
S(fns, start, end) == [fns |-> fns, start |-> start, end |-> end]

Middle == {Use("p"), Drop("p"), Drop("q"), Pick2("r", "p", "q"), AI("derive", "r", <<"p">>),
           AI("spill", "m", <<"p">>), AI("spill", "m", <<"q">>), AI("reload", "r", <<"m">>), AI("leak", "", <<"m">>),
           Drop("r"), Use("r"), Keep("q"), CallTo("lib", <<"r">>), CallTo("begin", <<"p">>)}
Straight == {S(Owner(<<<<Make("p"), Make("q"), a, b, c, Back>>>>), None, None) : a, b, c \in Middle}

Started == S(Owner(<<<<CallTo("begin", << >>), Make("p"), CallTo("work", <<"p">>), Drop("p"), Back>>>>), "begin", None)
Ended == S(Owner(<<<<CallTo("begin", << >>), Make("p"), Use("p"), Drop("p"), CallTo("end", << >>), Back>>>>), "begin", "end")
Helped == S([owner |-> <<<<Make("p"), CallTo("help", <<"p">>), CallTo("help", <<"p">>), Drop("p"), Back>>>>,
             help |-> <<<<Make("t"), Use("t"), AI("use", "", <<"arg">>), To(<<2, 3>>)>>, <<Drop("t"), Back>>, <<Back>>>>], None, None)
Loop == S(Owner(<<<<To(<<2>>)>>, <<Make("p"), AI("spill", "m", <<"p">>), AI("reload", "r", <<"m">>), Drop("r"), To(<<2, 3>>)>>,
                  <<Back>>>>), None, None)
Branches == S(Owner(<<<<Make("p"), To(<<2, 3>>)>>, <<Use("p"), Drop("p"), Back>>, <<Drop("p"), Make("p"), Use("p"), Back>>>>), None, None)
Calloc(n) == S(Owner(<<<<Zeroed("p", n), CallTo("begin", <<"p">>), Drop("p"), Back>>>>), None, None)
Cleanup == S(Owner(<<<<Make("p"), Invoke(<< >>, <<2, 3>>)>>, <<Drop("p"), Back>>, <<Land, Drop("p"), Resume>>>>), None, None)
Destructor == S(Owner(<<<<Make("p"), Invoke(<< >>, <<2, 3>>)>>, <<Drop("p"), Back>>, <<Land, Use("p"), Drop("p"), Resume>>>>), None, None)
LandsAndReturns == S(Owner(<<<<Make("p"), Invoke(<< >>, <<2, 3>>)>>, <<Drop("p"), Back>>, <<Land, Drop("p"), Back>>>>), None, None)
Caught == S(Owner(<<<<Make("p"), Invoke(<< >>, <<2, 3>>)>>, <<To(<<4>>)>>, <<Land, To(<<4>>)>>, <<Drop("p"), Back>>>>), None, None)
Late == S(Owner(<<<<Make("p"), CallTo("begin", <<"p">>), Use("p"), Back>>>>), "begin", None)
Consumed == S([owner |-> <<<<Make("p"), CallTo("help", <<"p">>), Back>>>>, help |-> <<<<Drop("arg"), Back>>>>], None, None)
Invoked == S(Owner(<<<<Make("p"), Make("q"), Invoke(<<"p">>, <<2, 3>>)>>, <<Use("q"), Drop("p"), Back>>, <<Land, Drop("p"), Resume>>>>), None, None)

Shaped == {Started, Ended, Helped, Loop, Branches, Calloc(2), Calloc(9), Cleanup, Destructor, LandsAndReturns, Late, Consumed, Invoked,
           S(Owner(<<<<Make("p"), AI("test", "", <<"p">>), Drop("p"), AI("ret", "", <<"p">>)>>>>), None, None)}
AllScopes == Straight \cup Shaped
Handlers == {Cleanup, Destructor, LandsAndReturns, Caught}
=============================================================================
