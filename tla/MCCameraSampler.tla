--------------------------- MODULE MCCameraSampler ---------------------------
EXTENDS CameraSampler

\* float(args.rate): a negative rate, no rate, a rate below the fps and the
\* default rate of 1 fps rounded up to the model's clock.
MCRateValues == {-1, 0, 2, 5}
=============================================================================
