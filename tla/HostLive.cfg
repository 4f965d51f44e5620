\* Two rotations over two sockets; one viewer who falls behind, and a broken socket;
\* two grids, a local terminal, two sockets.
SPECIFICATION Spec
CONSTANTS
    v1 = v1
    NoGrant = NoGrant
    NoViewer = NoViewer
PROPERTIES RotationEnds CatchUp LockReturned
CHECK_DEADLOCK FALSE
