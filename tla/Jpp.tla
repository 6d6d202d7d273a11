--------------------------------- MODULE Jpp ---------------------------------
(***************************************************************************)
(* A J++ program on its way to the chip: bin/jpp.rs reads its text, lexes, *)
(* parses and generates; main.rs assembles what was written; the words are *)
(* loaded and a warp runs them.  A job enters the way where it starts: a   *)
(* text, a sequence of tokens, or an assembler file written by hand.       *)
(***************************************************************************)
EXTENDS JppLanguage, Codegen, Assembler

CONSTANTS Jobs,                \* the jobs
          NumRegs, PcSize, SDEPTH, Lanes, Launched, LoadedData

VARIABLES job, stage, text, tokens, tree,          \* bin/jpp.rs
          prog, warp_pc, active_mask, stack, base_mask, warp_status, lanes  \* the chip

Chip == INSTANCE Warp WITH Programs <- {}

front    == <<job, text, tokens, tree>>
chip     == <<prog, warp_pc, active_mask, stack, base_mask, warp_status, lanes>>
vars     == <<stage, front, asmvars, chip>>

Init ==
  /\ job \in Jobs
  /\ stage = job.from
  /\ text = job.text
  /\ tokens = job.tokens
  /\ tree = << >>
  /\ InState(Fresh(job.lines))
  /\ Chip!Unloaded

\* Every phase consumes what the one before it made; the lexer does it one
\* lexeme at a time.
Lex ==
  /\ stage = "text" /\ text # << >>
  /\ LET round == Tokenized(tokens, text)
     IN IF round.error THEN stage' = "rejected" /\ tokens' = << >> /\ text' = << >>
        ELSE tokens' = round.tokens /\ text' = round.rest /\ UNCHANGED stage
  /\ UNCHANGED <<job, tree, asmvars, chip>>

EndOfText ==
  /\ stage = "text" /\ text = << >>
  /\ stage' = "tokens"
  /\ UNCHANGED <<front, asmvars, chip>>

Parse ==
  /\ stage = "tokens"
  /\ LET parsed == ParseProgram(tokens)
     IN IF parsed.ok THEN stage' = "tree" /\ tree' = parsed.tree
        ELSE stage' = "rejected" /\ tree' = << >>
  /\ tokens' = << >>
  /\ UNCHANGED <<job, text, asmvars, chip>>

\* The .asm file is written when the whole program has been generated.
Compile ==
  /\ stage = "tree"
  /\ LET made == Generate(tree)
     IN IF made.ok THEN stage' = "asm" /\ source' = made.asm
        ELSE stage' = "rejected" /\ UNCHANGED source
  /\ tree' = << >>
  /\ UNCHANGED <<job, text, tokens, phase, at, pc, labels, words, starts, chip>>

Assemble ==
  /\ stage = "asm" /\ AsmNext
  /\ UNCHANGED <<stage, front, chip>>

LoadAndStart ==
  /\ stage = "asm" /\ phase = "done"
  /\ stage' = "run"
  /\ Chip!Load(words, LoadedData)
  /\ UNCHANGED <<front, asmvars>>

Execute ==
  /\ stage = "run" /\ Chip!Run
  /\ UNCHANGED <<stage, front, asmvars>>

Next == Lex \/ EndOfText \/ Parse \/ Compile \/ Assemble \/ LoadAndStart \/ Execute

\* The assembler runs to its end and the warp is scheduled.  Nothing is assumed
\* of the front end: whoever never compiles a program is promised nothing.
Spec == Init /\ [][Next]_vars /\ WF_vars(Assemble \/ LoadAndStart \/ Execute)
=============================================================================
