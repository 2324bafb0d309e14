-------------------------- MODULE MCContainerStart --------------------------
EXTENDS ContainerStart

CONSTANTS a, b
=============================================================================
