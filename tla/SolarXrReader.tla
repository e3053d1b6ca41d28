---------------------------- MODULE SolarXrReader ----------------------------
(***************************************************************************)
(* The same reads, the way solarxr/mod.rs does them: handle_connection     *)
(* calls read_message in a branch of the select! whose other branch is the *)
(* 33 ms tick, and handles a message before it reads the next.             *)
(***************************************************************************)
EXTENDS FrameReader

\* The tick wins the select!.  The read in progress is dropped with the bytes
\* it has taken, and the next iteration starts another one.  (A read that has
\* taken nothing loses nothing; one that finds bytes on the socket when it is
\* polled goes on, so only a read that waits for more is dropped.)
Tick ==
  /\ Polled /\ start < pos /\ pos = written
  /\ start' = pos /\ size' = Unknown
  /\ UNCHANGED <<clientVars, pos, reader, queue, taken, ended>>

InlineNext ==
  \/ \E len \in Lens : Begin(len)
  \/ Write \/ CloseClient
  \/ queue = <<>> /\ (ReadByte \/ Deliver \/ Eof \/ Tick)
  \/ Take \/ Finish \/ DropReader

InlineSpec == FramesInit /\ [][InlineNext]_frameVars
=============================================================================
