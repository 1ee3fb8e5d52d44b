-------------------------- MODULE MCRuntimeProfile --------------------------
(* No lcores, eight of them, nine, a repeated one, a range that descends and *)
(* two texts without a usable token.                                         *)
EXTENDS RuntimeProfile

MCLcoreSpecs == {NoSpec, <<<<1, 6>>, <<8, 9>>>>, <<<<0, 8>>>>,
                 <<<<1, 3>>, <<2, 2>>>>, <<<<3, 1>>>>, <<<<1, 1>>, Junk>>, <<>>}
=============================================================================
