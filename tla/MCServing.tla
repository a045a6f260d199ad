----------------------------- MODULE MCServing -----------------------------
(* More requests than threads, one retry of each call.  A provider asks for  *)
(* no wait, for one beyond the longest sleep, for one that only complete()   *)
(* can read, behind a header that nobody can, or for a negative one in front *)
(* of another header.                                                        *)
EXTENDS Serving, TLC

OneRetry == [embed |-> 1, chat |-> 1]

Header(form, wait) == [form |-> form, wait |-> wait]
Absent == Header("absent", 0)

SomeReplies ==
    {<<Header("digits", 0), Absent, Absent>>,
     <<Header("digits", 3), Header("digits", 1), Absent>>,
     <<Header("words", 2), Header("unit", 3), Header("digits", 0)>>,
     <<Header("float", -1), Absent, Header("digits", 2)>>}

=============================================================================
