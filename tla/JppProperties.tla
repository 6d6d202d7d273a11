--------------------------- MODULE JppProperties ---------------------------
(* What the tool chain promises the author of a J++ program.                *)
EXTENDS Jpp, AssemblerProperties, BranchLayout

IsText   == job.from = "text"
IsJpp    == job.from \in {"text", "tokens"}
SourceTree == IF IsText THEN job.tree ELSE ParseProgram(job.tokens).tree
Ended    == stage = "run" /\ warp_status = "DONE"

\* However a program is laid out, with comments and without blanks, the lexer
\* finds the tokens that were written (lexer.rs).
TokensAreTheText == IsText /\ stage = "tokens" => tokens = SayAll(job.tree)

\* The tree is the program: parsing undoes writing, with the parentheses that the
\* precedence levels of parser.rs make necessary; and of a text somebody damaged,
\* what is accepted is a program with those very tokens, none skipped or invented.
Plainer(toks) == SelectSeq(toks, LAMBDA t : t.kind \notin {"(", ")"})
TreeIsTheSource ==
  stage = "tree" =>
    IF IsText THEN tree = job.tree ELSE Plainer(SayAll(tree)) = Plainer(job.tokens)

-----------------------------------------------------------------------------
\* The names a tree declares, in the order of their registers.
RECURSIVE Names(_)
Names(body) ==
  FlattenSeq([i \in DOMAIN body |->
    IF body[i].stmt = "manifest" THEN <<body[i].name>> ELSE Names(body[i].body)])

\* The lane ends with m's memory, output and variables; of two variables of one
\* name the later one counts.
EndsAs(lane, m, names) ==
  /\ lane.mem = m.mem /\ lane.out = m.out
  /\ \A i \in DOMAIN names :
       names[i] \in {names[k] : k \in i + 1 .. Len(names)} \/ lane.regs[i - 1] = m.vars[names[i]]

\* The compiled program is the source program: every thread ends with the
\* variables, the memory and the output that the source gives a thread on its own,
\* whatever registers, labels, branches and reconvergence the compiler chose.
CompiledMeansSource ==
  Ended /\ IsJpp =>
    \A l \in Launched : EndsAs(lanes[l], Meaning(SourceTree, l, LoadedData), Names(SourceTree))

\* No compiled program ends with lanes asleep: every if and every max has brought
\* its lanes together again (codegen.rs:13-25; RET would retire the sleepers), as
\* its words have the layout from which Divergence_proofs proves it of any program.
NobodyLeftBehind ==
  Ended /\ IsJpp => active_mask = Launched /\ stack = << >> /\ Structured(prog)

\* What is compiled and run is a program of the language, and every program of the
\* language is: whatever the parser or the generator rejects breaks a rule of the
\* language or a limit of the registers, and no assembler file with a faulty line
\* comes through (parser.rs, codegen.rs and reg() in main.rs).
RightVerdict ==
  /\ stage = "rejected" \/ phase = "exited" => job.fate # "runs"
  /\ stage = "run" => job.fate # "refused"

\* What is generated ends: the assembler comes through or exits, and the warp
\* reaches its RET with every loop left and every lane rejoined.
Ends == (stage = "asm") ~> (Ended \/ phase = "exited")
=============================================================================
