---------------------------- MODULE MCTaskSession ----------------------------
(* Constants of the run of TaskSession. *)
EXTENDS TaskSession

CONSTANTS l1, l2, f1, body, handoff, log

MCTask(phase, subject) == [phase |-> phase, subject |-> subject]

MCEvent(t, type, id, owner, path, digest, note) ==
    [type |-> type, task |-> t, id |-> id, owner |-> owner, path |-> path,
     digest |-> digest, note |-> note]

\* A lead of recon with its notes.
MCLead ==
    <<MCEvent(MCTask("recon", None), "lead.created", l1, None, body, Content("none"), "open"),
      MCEvent(MCTask("recon", None), "evidence.added", None, None, body, Content("text"), "other")>>

\* A finding that its investigation made of it, and that is accepted.
MCReviewed ==
    MCLead \o
    <<MCEvent(MCTask("investigate", l1), "finding.created", f1, l1, body, Content("none"), ""),
      MCEvent(MCTask("review", f1), "verdict.recorded", f1, None, None, Content("none"), "accepted")>>

\* A recon that begins, or that is recovered, and a task of each other phase.
MCSessions ==
    {[task |-> MCTask("recon", None), snapshot |-> <<>>],
     [task |-> MCTask("recon", None), snapshot |-> MCLead],
     [task |-> MCTask("investigate", l1), snapshot |-> MCLead],
     [task |-> MCTask("review", f1), snapshot |-> SubSeq(MCReviewed, 1, 3)],
     [task |-> MCTask("deduplicate", None), snapshot |-> MCReviewed],
     [task |-> MCTask("validate", f1), snapshot |-> MCReviewed]}

\* Among them a handoff that is for one subject only.
MCTexts == {Content("blank"), Content("text"), HandoffFor(l1)}
=============================================================================
