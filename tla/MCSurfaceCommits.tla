-------------------------- MODULE MCSurfaceCommits --------------------------
(* Small trees of surfaces and what they may commit. *)
EXTENDS SurfaceCommits

CONSTANTS win, kid, grandkid

Plain(attach) == [attach |-> attach, set |-> FALSE, wait |-> FALSE, timed |-> FALSE, late |-> FALSE]
Fifo(attach) == [Plain(attach) EXCEPT !.set = TRUE, !.wait = TRUE]
Timed(attach) == [Plain(attach) EXCEPT !.timed = TRUE]
Late == [Plain("dmabuf") EXCEPT !.late = TRUE]

TwoSurfaces == <<win, kid>>
KidOfWin == [s \in {win, kid} |-> IF s = kid THEN win ELSE NoParent]

WinAndKid == [s \in {win, kid} |->
    IF s = win THEN {Plain("null"), Plain("dmabuf"), Fifo("pixel"), Late}
    ELSE {Plain("none"), Fifo("shm")}]
FewUpdates == [s \in {win, kid} |->
    IF s = win THEN {Fifo("null"), Late} ELSE {Timed("shm"), Plain("refused")}]

KidTwice == [s \in {win, kid} |-> IF s = kid THEN 2 ELSE 3]
KidOnce == [s \in {win, kid} |-> IF s = kid THEN 1 ELSE 3]
KidCaches == [s \in {win, kid} |-> IF s = win THEN {Plain("null")} ELSE {Plain("none"), Plain("pixel")}]

ThreeSurfaces == <<win, kid, grandkid>>
KidOfKid == [s \in {win, kid, grandkid} |->
    IF s = win THEN NoParent ELSE IF s = kid THEN win ELSE kid]
AllPlain == [s \in {win, kid, grandkid} |-> {Plain("pixel")}]
OneEach == [s \in {win, kid, grandkid} |-> 1]
KidThrice == [s \in {win, kid} |-> 3]
=============================================================================
