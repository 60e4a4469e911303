------------------------------ MODULE MCMotion ------------------------------
\* Values for Motion: both axes and one rate; three requests (Motion.cfg) are a
\* motion of each axis and a stop between or after them.
EXTENDS Motion, TLC

MCAxes == {0, 1}
MCRates == {1}
=============================================================================
