---------------------------- MODULE MCCalibration ----------------------------
\* Best bid and offer on two prices each, with up to three sizes.
EXTENDS Calibration

Top(bidPx, bidSz, askPx, askSz) ==
    [bidPx |-> bidPx, bidSz |-> bidSz, askPx |-> askPx, askSz |-> askSz]

SmallTops ==
    {Top(1, 1, 4, 1), Top(1, 3, 4, 1), Top(1, 3, 4, 2), Top(2, 1, 4, 1),
     Top(2, 2, 3, 2), Top(1, 1, 3, 1)}

TwoTops == {Top(1, 3, 4, 1), Top(2, 1, 4, 1)}
=============================================================================
