------------------------- MODULE MCPublishLifecycle -------------------------
(* Instances of PublishLifecycle for TLC. *)
EXTENDS PublishLifecycle

\* Every step whose call may fail; LoudSteps leaves out the swallowed record
\* read of do_publish_failed, CleanupSteps the calls that undo a failed step,
\* ProgressSteps the errors of confirm_published that are not retried.
AllSteps == {"snapshot", "stage", "row", "project", "guard_clear",
             "guard_release", "retain", "merge", "retain2", "prune",
             "fail_clear", "fail_record", "fail_release", "hydrate_clear",
             "hydrate_record", "project_read", "fail_read", "hard"}
LoudSteps == AllSteps \ {"fail_read"}
CleanupSteps == LoudSteps \ {"guard_clear", "guard_release", "prune",
                             "fail_clear", "fail_record", "fail_release"}
ProgressSteps == CleanupSteps \ {"hard"}
NoSteps == {}
=============================================================================
