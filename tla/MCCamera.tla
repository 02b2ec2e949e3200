-------------------------------- MODULE MCCamera --------------------------------
(* Configurations of the camera driver for model checking. *)
EXTENDS Camera

\* Below and above the limits
CameraRom(size, skip, buffers, rotate) ==
    [width |-> size, height |-> size, fps |-> 9, num_buffer |-> buffers, skip_frames |-> skip,
     rotate |-> rotate]
MCRoms == {NoRom, CameraRom(1, 0, 1, TRUE), CameraRom(9, 5, 1, TRUE), CameraRom(1, 0, 9, TRUE),
           CameraRom(1, 0, 1, FALSE)}

\* The default
RotatedRoms == {CameraRom(1, 0, 1, TRUE)}
================================================================================
