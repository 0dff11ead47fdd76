----------------------------- MODULE StageTerms -----------------------------
(* Values and instructions of a pipeline's body: a parameter, the result of an *)
(* instruction, a slot in the frame, the handle of a task; def is the value    *)
(* that an instruction defines.                                                *)

Param(i) == <<"param", i>>
Out(id)  == <<"out", id>>
Slot(id) == <<"slot", id>>
Task(id) == <<"task", id>>
None     == <<"none">>

Ins(op, id, node, args, def) == [op |-> op, id |-> id, node |-> node, args |-> args, def |-> def]
=============================================================================
