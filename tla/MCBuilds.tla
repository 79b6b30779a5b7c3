------------------------------ MODULE MCBuilds ------------------------------
(* Command lines for model-checking Builds.                                *)
EXTENDS Builds

Img(digest) == [kind |-> "image", name |-> "alpine", digest |-> digest]
Overlay == [kind |-> "rootfs", name |-> "alpine", digest |-> "none"]

Line(s, noCache, output, tarball) ==
  [layers |-> s, noCache |-> noCache, output |-> output, tarball |-> tarball]

\* An image with an overlay, the image given twice, to a directory; a refresh of
\* the default, with a tarball.
MCConfigs ==
  { Line(<<Img("none"), Overlay, Img("sha")>>, FALSE, TRUE, FALSE),
    Line(<<>>, TRUE, FALSE, TRUE) }
=============================================================================
