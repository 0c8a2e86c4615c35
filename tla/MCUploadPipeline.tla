-------------------------- MODULE MCUploadPipeline --------------------------
(* TLC instance of UploadPipeline. *)
EXTENDS UploadPipeline, TLC

\* The bounds: how many accounts there are and what each sends.
CONSTANTS Accounts, Uploads

MCMaxUploads == [k \in Accounts |-> Uploads]
MCJobs == {SnapshotJob(n, s) : n, s \in 1..Uploads} \cup {AuditJob}
=============================================================================
