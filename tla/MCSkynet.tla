------------------------------ MODULE MCSkynet -------------------------------
(* The node of module Skynet with two workers, of weights -1 and 0.         *)
EXTENDS Skynet

CONSTANTS w1, w2

MCWeight == [w \in Workers |-> IF w = w1 THEN -1 ELSE 0]
=============================================================================
