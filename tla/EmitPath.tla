------------------------------ MODULE EmitPath ------------------------------
(***************************************************************************)
(* The way of an emitted byte to the host: gpu.sv's arbitration of the two *)
(* cores, top.sv's handshake with the transmitter, and uart_tx.sv.  The    *)
(* transmitter's ten bit times are one state, SHIFT, of any length: the    *)
(* byte is locked in when it enters and is on the host's side when it      *)
(* leaves.  Board clocks the module.                                       *)
(***************************************************************************)
EXTENDS Naturals, Sequences

VARIABLES
  turn,        \* gpu.sv estate: whose bytes are forwarded
  estate,      \* top.sv estate
  tx_start, emit_ready,
  tx           \* uart_tx: state, tx_busy, shift_register

emitvars == <<turn, estate, tx_start, emit_ready, tx>>

EmitInit ==
  /\ turn = "CORE0" /\ estate = "IDLE" /\ tx_start = FALSE /\ emit_ready = FALSE
  /\ tx = [state |-> "IDLE", busy |-> FALSE, shift |-> 0]

\* What the two cores' emit ports (valid, data) and the turn put on the wires.
EmitValid(port) == (turn = "CORE0" /\ port[0].valid) \/ (turn = "CORE1" /\ port[1].valid)
EmitData(port)  == IF turn = "CORE0" THEN port[0].data ELSE port[1].data

CoreReady(c) == emit_ready /\ turn = (IF c = 0 THEN "CORE0" ELSE "CORE1")

\* Mutant: core 1 takes over as soon as core 0 has nothing to say.
TurnEarly(reset, core_done, port) ==
  turn' = IF reset THEN "CORE0"
          ELSE IF turn = "CORE0" /\ ~port[0].valid THEN "CORE1"
          ELSE IF turn = "CORE1" /\ core_done[1] /\ ~port[1].valid THEN "END"
          ELSE turn

Turn(reset, core_done, port) ==
  turn' = IF reset THEN "CORE0"
          ELSE IF turn = "CORE0" /\ core_done[0] /\ ~port[0].valid THEN "CORE1"
          ELSE IF turn = "CORE1" /\ core_done[1] /\ ~port[1].valid THEN "END"
          ELSE turn

\* Mutant: launch without the !emit_ready of top.sv.
HandshakeTwice(port) ==
  \/ /\ estate = "IDLE" /\ EmitValid(port) /\ ~tx.busy
     /\ tx_start' = TRUE /\ emit_ready' = FALSE /\ estate' = "SEND"
  \/ /\ estate = "IDLE" /\ ~(EmitValid(port) /\ ~tx.busy)
     /\ tx_start' = FALSE /\ emit_ready' = FALSE /\ UNCHANGED estate
  \/ /\ estate = "SEND"
     /\ tx_start' = FALSE /\ emit_ready' = FALSE /\ estate' = IF tx.busy THEN "WAIT" ELSE "SEND"
  \/ /\ estate = "WAIT"
     /\ tx_start' = FALSE /\ emit_ready' = ~tx.busy /\ estate' = IF tx.busy THEN "WAIT" ELSE "IDLE"

\* Mutant: the ack comes when the byte starts, not when it is sent.
HandshakeEarly(port) ==
  \/ /\ estate = "IDLE" /\ EmitValid(port) /\ ~tx.busy /\ ~emit_ready
     /\ tx_start' = TRUE /\ emit_ready' = FALSE /\ estate' = "SEND"
  \/ /\ estate = "IDLE" /\ ~(EmitValid(port) /\ ~tx.busy /\ ~emit_ready)
     /\ tx_start' = FALSE /\ emit_ready' = FALSE /\ UNCHANGED estate
  \/ /\ estate = "SEND"
     /\ tx_start' = FALSE /\ emit_ready' = tx.busy /\ estate' = IF tx.busy THEN "IDLE" ELSE "SEND"

\* top.sv: launch, wait for the transmitter to start, wait for it to finish, ack.
\* In the cycle of the ack emit_valid is still up: !emit_ready keeps that from
\* launching the byte again.
Handshake(port) ==
  \/ /\ estate = "IDLE" /\ EmitValid(port) /\ ~tx.busy /\ ~emit_ready
     /\ tx_start' = TRUE /\ emit_ready' = FALSE /\ estate' = "SEND"
  \/ /\ estate = "IDLE" /\ ~(EmitValid(port) /\ ~tx.busy /\ ~emit_ready)
     /\ tx_start' = FALSE /\ emit_ready' = FALSE /\ UNCHANGED estate
  \/ /\ estate = "SEND"
     /\ tx_start' = FALSE /\ emit_ready' = FALSE /\ estate' = IF tx.busy THEN "WAIT" ELSE "SEND"
  \/ /\ estate = "WAIT"
     /\ tx_start' = FALSE /\ emit_ready' = ~tx.busy /\ estate' = IF tx.busy THEN "WAIT" ELSE "IDLE"

Transmit(port) ==
  \/ /\ tx.state = "IDLE" /\ tx_start
     /\ tx' = [state |-> "SHIFT", busy |-> TRUE, shift |-> EmitData(port)]
  \/ tx.state = "IDLE" /\ ~tx_start /\ tx' = [tx EXCEPT !.busy = FALSE]
  \/ tx.state = "SHIFT" /\ tx' \in {tx, [tx EXCEPT !.state = "IDLE"]}

\* The stop bit is over: the host has the byte.
Delivers == tx.state = "SHIFT" /\ tx'.state = "IDLE"

EmitStep(reset, core_done, port) ==
  Turn(reset, core_done, port) /\ Handshake(port) /\ Transmit(port)
=============================================================================
