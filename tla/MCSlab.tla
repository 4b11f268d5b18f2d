------------------------------- MODULE MCSlab -------------------------------
(* One cache of each kind slab_init makes: small objects with the control     *)
(* part in the slab, larger ones with the control part in an object of the    *)
(* first cache, and objects that fill a slab of several pages.                *)
EXTENDS Slab

MCCaches == 0 .. 2
MCObjSize == [c \in MCCaches |-> 2 ^ c]
MCNum == [c \in MCCaches |-> IF c = 0 THEN 3 ELSE IF c = 1 THEN 2 ELSE 1]
MCPages == [c \in MCCaches |-> IF c = 2 THEN 2 ELSE 1]
MCOffSlab == {1, 2}
MCHeaderCache == [c \in MCOffSlab |-> 0]
MCSizes == {0, 2, 3}
MCFrames == 1 .. 4
MCMaxUser == 3
=============================================================================
