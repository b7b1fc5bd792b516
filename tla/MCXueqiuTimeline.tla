-------------------------- MODULE MCXueqiuTimeline --------------------------
(***************************************************************************)
(* Values for XueqiuTimeline: pages of two posts, an old post stored       *)
(* before the first crawl with a gap below it, which is pinned as well.    *)
(***************************************************************************)
EXTENDS XueqiuTimeline

GappyLegacy == {2}
=============================================================================
