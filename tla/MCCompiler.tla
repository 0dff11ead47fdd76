------------------------------ MODULE MCCompiler ------------------------------
(***************************************************************************)
(* The compiler and its tools: the transform backend at the grain of       *)
(* functions, the passes that rewrite bodies (lifetime arenas,             *)
(* indirections), the checks of the Verifier, the decompiler, and the      *)
(* engine that specializes pipelines at run time.  They meet in the module *)
(* they are given one after the other, not in their steps: in a behaviour  *)
(* one of them steps (focus) and the others stay in an initial state.      *)
(***************************************************************************)
EXTENDS MCTransform, JitEngine, FnBlocks, Signatures, DataLayout, Indirection

CONSTANTS Parts, Scopes

VARIABLES
  focus,
  lifting, level, lifted, at, trace, choices, how,
  program, input, body, state, codePc,
  scope, plan, stack, heap, made, arenas, global, faults, madeFaults, runs, phase

flowVars    == <<lifting, level, lifted, at, trace, choices, how>>
codeVars    == <<program, input, body, state, codePc>>
arenaVars   == <<scope, plan, stack, heap, made, arenas, global, faults, madeFaults, runs, phase>>

LiftShapes        == INSTANCE LiftShapes
ArenaShapes       == INSTANCE ArenaShapes
IndirectionShapes == INSTANCE IndirectionShapes
BlockShapes       == INSTANCE BlockShapes
SignatureShapes   == INSTANCE SignatureShapes
JitShapes         == INSTANCE JitShapes
LayoutShapes      == INSTANCE LayoutShapes

AllScopes     == ArenaShapes!AllScopes
HandlerScopes == ArenaShapes!Handlers

JitBinaries == JitShapes!Embeddings
JitContexts == JitShapes!Prunes
JitSamples  == JitShapes!Costs

BlockCases  == BlockShapes!Bodied

LayoutCases == LayoutShapes!Shapes

PointerCases == IndirectionShapes!Shapes

Declarations == SignatureShapes!Declarations
Definitions  == SignatureShapes!Definitions
TypeNames    == SignatureShapes!Using

Flow       == INSTANCE Lifter WITH fn <- lifting, Funcs <- LiftShapes!Shapes, MaxChoices <- 4
Code       == INSTANCE LiftCode WITH Programs <- LiftShapes!ReadModifyWrite, Inputs <- LiftShapes!Memories, Bits <- 3
ArenaPass  == INSTANCE ArenaPass WITH Words <- 16, MaxRuns <- 2, MaxMade <- 4

\* The initial states of a component: all of them when it steps, and else a plain one.
Of(part, S, plain) == IF focus = part THEN S ELSE {plain}
Plain == CHOOSE x \in Programs : TRUE
Build == CHOOSE c \in Configs : TRUE

CompilerInit ==
  /\ focus \in Parts
  /\ JitInitFrom(Of("jit", Binaries, JitShapes!Simple))
  /\ InitFrom(Of("build", Programs, Plain), Of("build", Configs, Build))
  /\ Flow!LiftInitFrom(Of("flow", LiftShapes!Shapes, LiftShapes!Joined)) /\ (focus = "flow" \/ level = "direct")
  /\ Code!CodeInitFrom(Of("code", LiftShapes!ReadModifyWrite, << >>), Of("code", LiftShapes!Memories, << >>))
  /\ ArenaPass!ArenaInitFrom(Of("arena", Scopes, ArenaShapes!Cleanup))
  /\ IndirectionInitFrom(Of("pointers", Sources, IndirectionShapes!Empty))
  /\ focus = "pointers" \/ switches = [shared |-> FALSE, devirtualize |-> FALSE]
  /\ BlockInitFrom(Of("block", LogicBlocks, BlockShapes!Some))
  /\ SignatureInitFrom(Of("signature", Declared, SignatureShapes!Nullary), Of("signature", Written, SignatureShapes!Nullary))
  /\ LayoutInitFrom(Of("layout", Layouts, LayoutShapes!Simple))

\* A part steps, and all others stay where they are.
Alone(part) ==
  /\ focus = part /\ UNCHANGED focus
  /\ (part = "build"     \/ UNCHANGED vars)
  /\ (part = "flow"      \/ UNCHANGED flowVars)
  /\ (part = "code"      \/ UNCHANGED codeVars)
  /\ (part = "arena"     \/ UNCHANGED arenaVars)
  /\ (part = "pointers"  \/ UNCHANGED indirectionVars)
  /\ (part = "block"     \/ UNCHANGED blockVars)
  /\ (part = "signature" \/ UNCHANGED signatureVars)
  /\ (part = "jit"       \/ UNCHANGED jitVars)
  /\ (part = "layout"    \/ UNCHANGED layoutVars)

CompilerNext ==
  \/ Alone("build")     /\ Next
  \/ Alone("flow")      /\ Flow!LiftNext
  \/ Alone("code")      /\ Code!CodeNext
  \/ Alone("arena")     /\ ArenaPass!ArenaNext
  \/ Alone("pointers")  /\ IndirectionNext
  \/ Alone("block")     /\ BlockNext
  \/ Alone("signature") /\ SignatureNext
  \/ Alone("jit")       /\ JitNext
  \/ Alone("layout")    /\ LayoutNext

CompilerVars ==
  <<focus, vars, flowVars, codeVars, arenaVars, indirectionVars, blockVars, signatureVars, jitVars, layoutVars>>
CompilerSpec == CompilerInit /\ [][CompilerNext]_CompilerVars

-----------------------------------------------------------------------------
\* What the components promise, stated in their modules: statements that run as the
\* graph and the instructions they were made of; arenas that keep memory as it was;
\* rewritten pointers and calls that do what the program did; a check of signatures
\* that is right about what it lets pass and what it reports; arrays in columns that keep
\* their values.  What a build, a specialized pipeline and a logic block promise is in
\* the modules this one extends.
LiftedAsWritten      == Flow!LiftedAsWritten
StatementsCompute    == Code!StatementsCompute
ArenaKeepsMemory     == ArenaPass!ArenaKeepsMemory

\* What a comment of the code says and a run refutes, stated in the module, too: an
\* arena is destroyed once.
DestroyedOnce      == ArenaPass!DestroyedOnce
=============================================================================
