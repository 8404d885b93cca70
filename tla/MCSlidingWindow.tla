-------------------------- MODULE MCSlidingWindow ---------------------------
(***************************************************************************)
(* SlidingWindow with five frames and a buffer of two: no window, windows  *)
(* below and at the buffer, one between buffer and COUNT, one above COUNT. *)
(***************************************************************************)
EXTENDS SlidingWindow
=============================================================================
