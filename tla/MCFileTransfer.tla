--------------------------- MODULE MCFileTransfer ---------------------------
(***************************************************************************)
(* Instances of FileTransfer for TLC, and what the README says of a        *)
(* received file.                                                          *)
(***************************************************************************)
EXTENDS FileTransfer

Commands(accepts, resumes, rejects, cuts, restarts) ==
  [accept |-> accepts, resume |-> resumes, reject |-> rejects,
   cut |-> cuts, restart |-> restarts]

\* Two accepts, whose goroutines share the cursor: on connections that hold,
\* with a reject; and with a cut and a restart.  One accept and a resume with a
\* cut: and a reject, or a restart.
MCBudgets ==
  {Commands(2, 0, 1, 0, 0), Commands(2, 0, 0, 1, 1),
   Commands(1, 1, 1, 1, 0), Commands(1, 1, 0, 1, 1)}

\* One accept and nothing else.
OneAccept == {Commands(1, 0, 0, 0, 0)}

(* README.md:136: "File automatically saved to ~/Downloads/korik/".  Once   *)
(* every chunk has arrived the file is saved, unless the receiver stops.    *)
FileIsSaved == Whole ~> (saved \/ entry = 0)
=============================================================================
