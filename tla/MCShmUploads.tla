---------------------------- MODULE MCShmUploads ----------------------------
(* A window with two buffers and a bar with one. *)
EXTENDS ShmUploads

CONSTANTS win, bar, front, back, strip, left, right

WinAndBar == <<win, bar>>
PingPong == [s \in {win, bar} |-> IF s = win THEN {front, back} ELSE {strip}]
=============================================================================
