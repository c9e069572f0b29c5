---------------------------- MODULE MCTimelineSync ----------------------------
(* Instances of TimelineSync for TLC: pages of two rows, so that a resume   *)
(* can overflow one page and a catch-up can need several.                   *)
EXTENDS TimelineSync
=============================================================================
