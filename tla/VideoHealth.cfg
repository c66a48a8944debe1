SPECIFICATION Spec
PROPERTY RecoverySafety PictureLiveness KeyFrameKeepsBeingAsked
