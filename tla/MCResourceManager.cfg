SPECIFICATION Spec
CONSTANTS
    Programs = {im, nm}
    instance_manager = im
    StorageMayFail = TRUE
    MaxLines = 3
    MaxSecond = 1
INVARIANTS TypeOK LinesAccounted UploadedOnce FilesBucketThere
