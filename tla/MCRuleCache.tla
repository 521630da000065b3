---------------------------- MODULE MCRuleCache ----------------------------
(* A small instance of RuleCache.                                          *)
EXTENDS RuleCache, TLC
CONSTANTS t1, t2, base, ext, far, main, TM, TN, TP, fx, fy, fz, fw, fv, fu, fs

ThreadSymmetry == Permutations(Threads)

\* main imports base and ext; far, with extensions, is imported by no file.
MCImports == (base :> {}) @@ (ext :> {}) @@ (far :> {}) @@ (main :> {base, ext})
\* TP is declared in base; TM and TN, which refer to each other, in main.
MCFileOf == (TM :> main) @@ (TN :> main) @@ (TP :> base)
\* TM: fx holds a TN, fy is a scalar with an extension of far.
\* fs holds a TP and is ignored.  TN: fz is a list of TM, fw a map of TP with an
\* extension of ext, fu a list of TP with ignored items.  TP: fv, a scalar.
MCOwner == (fx :> TM) @@ (fy :> TM) @@ (fz :> TN) @@ (fw :> TN) @@ (fv :> TP) @@ (fu :> TN) @@ (fs :> TM)
MCValue ==
  (fx :> TN) @@ (fy :> NoType) @@ (fz :> TM) @@ (fw :> TP) @@ (fv :> NoType)
  @@ (fu :> TP) @@ (fs :> TP)
MCExtensions ==
  (fx :> {}) @@ (fy :> {far}) @@ (fz :> {}) @@ (fw :> {ext}) @@ (fv :> {})
  @@ (fu :> {}) @@ (fs :> {})
=============================================================================
