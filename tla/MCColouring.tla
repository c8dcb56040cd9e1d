---------------------------- MODULE MCColouring ----------------------------
(***************************************************************************)
(* IMU windows that begin and end before and after the images, with a gap,  *)
(* with equal stamps, and with a single state.                              *)
(***************************************************************************)
EXTENDS Colouring

At(times) == [k \in DOMAIN times |-> [time |-> times[k]]]

MCImuWindows == {At(<<1, 2, 4>>), At(<<3, 3, 5>>), At(<<4>>)}
=============================================================================
