--------------------------- MODULE MCRenderQueue ---------------------------
EXTENDS RenderQueue
CONSTANTS a, b, c, s
InitialTwo == <<a, b>>
InitialOne == <<a>>
=============================================================================
