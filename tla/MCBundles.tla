----------------------------- MODULE MCBundles -----------------------------
(* A search of three pages; the other services have as many calls as in the *)
(* code.                                                                    *)
EXTENDS Bundles

MCSearchPages == {"page0", "page1", "page2"}
=============================================================================
