---------------------------- MODULE MCIngestor ----------------------------
(***************************************************************************)
(* Small instances of the ingest buffer.  The settings of an instance are  *)
(* records; the sets below give the situations the runs are about.         *)
(***************************************************************************)
EXTENDS IngestorProps, TLC

Conf(e, r, p) == [env |-> e, rev |-> r, provider |-> p]

\* Two environments attached to the same revision.
SharedRevision == {Conf("production", "r1", "MONGODB"), Conf("staging", "r1", "AWS_S3")}

\* Environments in pairs attached to a revision; one of them has been moved from a
\* revision to the other.  What a job of MONGODB can do, one of GC_BIGQUERY_STREAM can.
Mixed == {Conf("production", "r1", "GC_BIGQUERY_STREAM"), Conf("test", "r1", "LOG"),
          Conf("production", "r2", "GC_BIGQUERY_STREAM"), Conf("archive", "r2", "AWS_S3")}

\* A single environment, whose provider may fail before it takes anything.
Single == {Conf("production", "r1", "GC_BIGQUERY_STREAM")}

MCEnvOf      == [s \in Settings |-> s.env]
MCRevOf      == [s \in Settings |-> s.rev]
MCProviderOf == [s \in Settings |-> s.provider]

Symmetry == Permutations(Payload)
=============================================================================
