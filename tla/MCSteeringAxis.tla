---------------------------- MODULE MCSteeringAxis ----------------------------
\* The steering axis over 4 positions of a turn of 8 steps: between two samples
\* the wheel may be driven 3 steps and pushed another one, half a turn, of which
\* the sensor cannot tell the direction.
EXTENDS SteeringAxis
=============================================================================
