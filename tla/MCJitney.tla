------------------------------ MODULE MCJitney ------------------------------
EXTENDS Jitney

\* One GUID for each fact GitHub reports about a job.
WebhookEvents == {"queued", "in_progress", "completed"} \X Jobs
=============================================================================
