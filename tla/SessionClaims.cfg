\* Claims the code makes of itself and does not keep: put one of them in the
\* place of the last line.
\*   INVARIANT PendingHasKeys   INVARIANT ReplyInKind     INVARIANT RepliesStayOnTheirLink
\*   PROPERTY AllowedWhatWasShown   PROPERTY QuestionKept   PROPERTY FramesIntact
\*   PROPERTY ApprovedMeansSealed   INVARIANT NoncesNeverRepeat
SPECIFICATION Spec
CONSTANTS
  MaxAttempts = 2
  MaxFrames = 6
PROPERTY AllowedWhatWasShown
