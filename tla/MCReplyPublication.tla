------------------------- MODULE MCReplyPublication -------------------------
\* Instances of ReplyPublication for TLC.
EXTENDS ReplyPublication, TLC

\* Two executions of the publish job are interchangeable.
WorkerSymmetry == Permutations(Workers)

\* Two texts of the manager are interchangeable.
DraftSymmetry == Permutations(Drafts)
=============================================================================
