------------------------------ MODULE MCRecording -------------------------------
EXTENDS Recording
CONSTANTS h1, b1

OneThread == {h1}
OneBatch == {b1}
================================================================================
